---- MODULE Spec2Model ----
(***************************************************************************)
(* A model of the chess rules engine of terra-chess (src/src/engine.rs):   *)
(* the Game struct, move_piece / move_pieces, the move generator           *)
(* raw_moves, the legality filter check_valid_moves, the check oracle      *)
(* in_check and the outcome evaluator check_victory.                       *)
(*                                                                         *)
(* Positions are pairs <<x, y>> (file, rank), 0-indexed as in the source;  *)
(* a usize coordinate outside the board is any value above 7.  A call that *)
(* can panic returns a record [panic, value]; panic = TRUE is the abort.   *)
(*                                                                         *)
(* The contract of the same repository (src/src/contract.rs) is modelled   *)
(* by the variable storage, the maps it keeps on chain, and the ghost      *)
(* variable concluded; the engine's actions leave both untouched.          *)
(***************************************************************************)
EXTENDS Integers, Sequences, FiniteSets, TLC

VARIABLES game, op, steps, dstep, storage, concluded

vars == <<game, op, steps, dstep, storage, concluded>>

---------------------------------------------------------------------------
(* Pieces                                                                  *)

Colors == {"White", "Black"}

Kinds == {"King", "Queen", "Knight", "Bishop", "Rook", "Pawn"}

\* Option::None for a board cell or a returned piece.
None == [color |-> "None", kind |-> "None"]

PieceOf(c, k) == [color |-> c, kind |-> k]

KindAt(i) ==
    CASE i = 0 -> "Pawn" [] i = 1 -> "Rook" [] i = 2 -> "Knight"
      [] i = 3 -> "Bishop" [] i = 4 -> "Queen" [] i = 5 -> "King"

WHITE == [i \in 0..5 |-> PieceOf("White", KindAt(i))]

BLACK == [i \in 0..5 |-> PieceOf("Black", KindAt(i))]

Opposite(color) == IF color = "White" THEN "Black" ELSE "White"

OutOfBounds(from, to) == from[1] > 7 \/ from[2] > 7 \/ to[1] > 7 \/ to[2] > 7

---------------------------------------------------------------------------
(* The Game struct and its constructors                                    *)

EmptyBoard == [x \in 0..7 |-> [y \in 0..7 |-> None]]

save_board(g) == [g EXCEPT !.board_history = Append(@, g.board)]

NewBoard ==
    [x \in 0..7 |-> [y \in 0..7 |->
        IF y = 1 THEN WHITE[0]
        ELSE IF y = 6 THEN BLACK[0]
        ELSE IF y = 0 THEN
            (IF x < 3 THEN WHITE[1 + x]
             ELSE IF x > 4 THEN WHITE[1 + (7 - x)]
             ELSE IF x = 4 THEN WHITE[5] ELSE WHITE[4])
        ELSE IF y = 7 THEN
            (IF x < 3 THEN BLACK[1 + x]
             ELSE IF x > 4 THEN BLACK[1 + (7 - x)]
             ELSE IF x = 4 THEN BLACK[5] ELSE BLACK[4])
        ELSE None]]

GameWith(b) ==
    save_board([turn |-> 1,
                board |-> b,
                ignore_kings |-> FALSE,
                ignore_check |-> FALSE,
                last |-> <<<<0, 0>>, <<0, 0>>>>,
                white_can_castle_right |-> TRUE,
                black_can_castle_right |-> TRUE,
                white_can_castle_left |-> TRUE,
                black_can_castle_left |-> TRUE,
                board_history |-> <<>>,
                seventy_five_move_rule |-> 0,
                last_color |-> "Black"])

new == GameWith(NewBoard)

new_empty == GameWith(EmptyBoard)

clear(g) == [g EXCEPT !.board = EmptyBoard, !.last = <<<<0, 0>>, <<0, 0>>>>]

ignore_kings(g, ignore) == [g EXCEPT !.ignore_kings = ignore]

ignore_check(g, ignore) == [g EXCEPT !.ignore_check = ignore]

get_from_pos(g, pos) == g.board[pos[1]][pos[2]]

set_at_pos(g, pos, piece) ==
    [g EXCEPT !.last_color = IF piece # None THEN piece.color ELSE @,
              !.board[pos[1]][pos[2]] = piece]

next_turn(g) == [g EXCEPT !.turn = @ + 1]

\* Squares in the order of by_color and by_kind: rank by rank, A1..H1, A2..H2, ...
RowMajor == [i \in 1..64 |-> <<(i - 1) % 8, (i - 1) \div 8>>]

\* Squares in the order of by_kind_and_color: file by file, A1..A8, B1..B8, ...
ColMajor == [i \in 1..64 |-> <<(i - 1) \div 8, (i - 1) % 8>>]

by_color(g, color) ==
    LET Has(pos) == get_from_pos(g, pos).color = color
    IN  SelectSeq(RowMajor, Has)

by_kind_and_color(g, kind, color) ==
    LET Has(pos) == get_from_pos(g, pos) = PieceOf(color, kind)
    IN  SelectSeq(ColMajor, Has)

---------------------------------------------------------------------------
(* move_piece and move_pieces                                              *)

\* The halfmove clock after a move of piece p onto a cell holding other.
ClockAfter(g, p, other) ==
    IF p.kind = "Pawn" THEN 0
    ELSE IF other # None THEN 0
    ELSE g.seventy_five_move_rule + 1

\* The piece put on the destination: a pawn reaching the last rank is a queen.
Promoted(p, to) ==
    IF p.kind = "Pawn" /\ p.color = "White" /\ to[2] = 7 THEN WHITE[4]
    ELSE IF p.kind = "Pawn" /\ p.color = "Black" /\ to[2] = 0 THEN BLACK[4]
    ELSE p

\* A revocation that on a king move clears the queenside flag only.
RevokeCastling_king_left_only(g, p, from) ==
    IF p.kind = "King" THEN
        IF p.color = "White"
        THEN [g EXCEPT !.white_can_castle_left = FALSE]
        ELSE [g EXCEPT !.black_can_castle_left = FALSE]
    ELSE IF p.kind = "Rook" THEN
        IF p.color = "White" THEN
            IF from[1] = 0 THEN [g EXCEPT !.white_can_castle_left = FALSE]
            ELSE IF from[1] = 7 THEN [g EXCEPT !.white_can_castle_right = FALSE]
            ELSE g
        ELSE
            IF from[1] = 0 THEN [g EXCEPT !.black_can_castle_left = FALSE]
            ELSE IF from[1] = 7 THEN [g EXCEPT !.black_can_castle_right = FALSE]
            ELSE g
    ELSE g

\* The castling flags after piece p leaves the square from.
\* Variant of RevokeCastling: a rook revokes a flag only from its corner.
RevokeCastling_corner_only(g, p, from) ==
    IF p.kind = "King" THEN
        IF p.color = "White"
        THEN [g EXCEPT !.white_can_castle_left = FALSE, !.white_can_castle_right = FALSE]
        ELSE [g EXCEPT !.black_can_castle_left = FALSE, !.black_can_castle_right = FALSE]
    ELSE IF p.kind = "Rook" THEN
        IF p.color = "White" THEN
            IF from = <<0, 0>> THEN [g EXCEPT !.white_can_castle_left = FALSE]
            ELSE IF from = <<7, 0>> THEN [g EXCEPT !.white_can_castle_right = FALSE]
            ELSE g
        ELSE
            IF from = <<0, 7>> THEN [g EXCEPT !.black_can_castle_left = FALSE]
            ELSE IF from = <<7, 7>> THEN [g EXCEPT !.black_can_castle_right = FALSE]
            ELSE g
    ELSE g

RevokeCastling(g, p, from) ==
    IF p.kind = "King" THEN
        IF p.color = "White"
        THEN [g EXCEPT !.white_can_castle_left = FALSE, !.white_can_castle_right = FALSE]
        ELSE [g EXCEPT !.black_can_castle_left = FALSE, !.black_can_castle_right = FALSE]
    ELSE IF p.kind = "Rook" THEN
        IF p.color = "White" THEN
            IF from[1] = 0 THEN [g EXCEPT !.white_can_castle_left = FALSE]
            ELSE IF from[1] = 7 THEN [g EXCEPT !.white_can_castle_right = FALSE]
            ELSE g
        ELSE
            IF from[1] = 0 THEN [g EXCEPT !.black_can_castle_left = FALSE]
            ELSE IF from[1] = 7 THEN [g EXCEPT !.black_can_castle_right = FALSE]
            ELSE g
    ELSE g

\* A record of the last move that only pawn moves overwrite.
RecordLast_pawns_only(g, from, to) ==
    IF get_from_pos(g, to).kind = "Pawn" THEN [g EXCEPT !.last = <<from, to>>] ELSE g

\* The last recorded move after a move from -> to.
RecordLast(g, from, to) == [g EXCEPT !.last = <<from, to>>]

\* A move_piece that records the move as the last one even when the origin
\* is empty.
move_piece_records_failed(g, from, to) ==
    IF OutOfBounds(from, to) THEN [game |-> g, ret |-> None]
    ELSE LET moving == get_from_pos(g, from)
             other  == get_from_pos(g, to)
         IN  IF moving = None THEN [game |-> RecordLast(g, from, to), ret |-> None]
             ELSE LET g1 == [g EXCEPT !.seventy_five_move_rule = ClockAfter(g, moving, other)]
                      g2 == RevokeCastling(g1, moving, from)
                      g3 == set_at_pos(g2, to, Promoted(moving, to))
                      g4 == set_at_pos(g3, from, None)
                  IN  [game |-> RecordLast(g4, from, to), ret |-> other]

\* move_piece: [game |-> the game afterwards, ret |-> the returned Option<&Piece>].
move_piece(g, from, to) ==
    IF OutOfBounds(from, to) THEN [game |-> g, ret |-> None]
    ELSE LET moving == get_from_pos(g, from)
             other  == get_from_pos(g, to)
         IN  IF moving = None THEN [game |-> g, ret |-> None]
             ELSE LET g1 == [g EXCEPT !.seventy_five_move_rule = ClockAfter(g, moving, other)]
                      g2 == RevokeCastling(g1, moving, from)
                      g3 == set_at_pos(g2, to, Promoted(moving, to))
                      g4 == set_at_pos(g3, from, None)
                  IN  [game |-> RecordLast(g4, from, to), ret |-> other]

RECURSIVE move_pieces_loop(_, _, _, _), move_pieces_loop_keeps_history(_, _, _, _)

\* A loop that does not empty the history on a capture.
move_pieces_loop_keeps_history(g, moves, k, captured) ==
    IF k > Len(moves) THEN [game |-> g, ret |-> captured]
    ELSE LET r == move_piece(g, moves[k][1], moves[k][2])
         IN  move_pieces_loop_keeps_history(save_board(r.game), moves, k + 1,
                                            IF r.ret # None THEN r.ret ELSE captured)

\* `for v in moves` of move_pieces from the k-th sub-move on.
move_pieces_loop(g, moves, k, captured) ==
    IF k > Len(moves) THEN [game |-> g, ret |-> captured]
    ELSE LET r  == move_piece(g, moves[k][1], moves[k][2])
             g1 == IF r.ret # None THEN [r.game EXCEPT !.board_history = <<>>] ELSE r.game
         IN  move_pieces_loop(save_board(g1), moves, k + 1,
                              IF r.ret # None THEN r.ret ELSE captured)

\* A move_pieces without the validation of the bounds up front.
move_pieces_unvalidated(g, moves) == move_pieces_loop(g, moves, 1, None)

move_pieces(g, moves) ==
    IF \E k \in 1..Len(moves) : OutOfBounds(moves[k][1], moves[k][2])
    THEN [game |-> g, ret |-> None]
    ELSE move_pieces_loop(g, moves, 1, None)

---------------------------------------------------------------------------
(* raw_moves: the pseudo-legal candidates of the piece on a square         *)

Forward(color) == IF color = "White" THEN 1 ELSE -1

StartRank(color) == IF color = "White" THEN 1 ELSE 6

PassantRank(color) == IF color = "White" THEN 4 ELSE 3

\* A pawn that is not on the rank it would promote on.
CanAdvance(color, pos) == IF color = "White" THEN pos[2] < 7 ELSE pos[2] > 0

\* Pawn advances without the two-square advance.
PawnPushes_single(g, pos, piece) ==
    IF CanAdvance(piece.color, pos)
       /\ get_from_pos(g, <<pos[1], pos[2] + Forward(piece.color)>>) = None
    THEN << <<pos[1], pos[2] + Forward(piece.color)>> >> ELSE <<>>

\* Variant of PawnPushes that does not look at the squares ahead.
PawnPushes_blind(g, pos, piece) ==
    LET dy == Forward(piece.color)
    IN  (IF pos[2] = StartRank(piece.color) THEN << <<pos[1], pos[2] + 2 * dy>> >> ELSE <<>>)
        \o (IF CanAdvance(piece.color, pos) THEN << <<pos[1], pos[2] + dy>> >> ELSE <<>>)

\* The two-square advance (pushed first) and the one-square advance.
PawnPushes(g, pos, piece) ==
    LET dy == Forward(piece.color)
        two == IF pos[2] = StartRank(piece.color)
                  /\ get_from_pos(g, <<pos[1], pos[2] + dy>>) = None
                  /\ get_from_pos(g, <<pos[1], pos[2] + 2 * dy>>) = None
               THEN << <<pos[1], pos[2] + 2 * dy>> >> ELSE <<>>
        one == IF CanAdvance(piece.color, pos)
                  /\ get_from_pos(g, <<pos[1], pos[2] + dy>>) = None
               THEN << <<pos[1], pos[2] + dy>> >> ELSE <<>>
    IN  two \o one

\* The condition under which the pawn on pos gets an en-passant candidate
\* towards the neighbouring file nx.
passant(g, pos, piece, nx) ==
    LET other == get_from_pos(g, <<nx, pos[2]>>)
    IN  /\ other # None
        /\ other.color # piece.color
        /\ pos[2] = PassantRank(piece.color)
        /\ g.last[1][1] = nx
        /\ g.last[1][2] = pos[2] + 2 * Forward(piece.color)
        /\ g.last[2][1] = nx
        /\ g.last[2][2] = pos[2]

\* The en-passant candidate towards file nx: sideways onto the passed pawn,
\* then forward.
PassantSequence(pos, piece, nx) ==
    << <<pos, <<nx, pos[2]>>>>,
       <<<<nx, pos[2]>>, <<nx, pos[2] + Forward(piece.color)>>>> >>

\* One side (nx = pos.0 - 1 or pos.0 + 1) of a pawn: its en-passant candidate
\* and its diagonal capture.
PawnSide(g, pos, piece, nx) ==
    IF nx < 0 \/ nx > 7 \/ ~CanAdvance(piece.color, pos)
    THEN [result |-> <<>>, moves |-> <<>>]
    ELSE LET ep   == passant(g, pos, piece, nx)
             diag == <<nx, pos[2] + Forward(piece.color)>>
         IN  [result |-> IF ep THEN <<PassantSequence(pos, piece, nx)>> ELSE <<>>,
              moves  |-> IF get_from_pos(g, diag) # None /\ ~ep
                         THEN <<diag>> ELSE <<>>]

PawnMoves(g, pos, piece) ==
    LET l == PawnSide(g, pos, piece, pos[1] - 1)
        r == PawnSide(g, pos, piece, pos[1] + 1)
    IN  [result |-> l.result \o r.result,
         moves  |-> PawnPushes(g, pos, piece) \o l.moves \o r.moves]

\* Variant of Slide that runs on to the edge of the board through pieces.
RECURSIVE Slide_through(_, _, _, _)
Slide_through(g, pos, dx, dy) ==
    LET nxt == <<pos[1] + dx, pos[2] + dy>>
    IN  IF nxt[1] < 0 \/ nxt[1] > 7 \/ nxt[2] < 0 \/ nxt[2] > 7 THEN <<>>
        ELSE <<nxt>> \o Slide_through(g, nxt, dx, dy)

\* One `while` loop of a sliding piece: the squares from pos in direction
\* (dx, dy), up to and including the first occupied one.
RECURSIVE Slide(_, _, _, _)
Slide(g, pos, dx, dy) ==
    LET nxt == <<pos[1] + dx, pos[2] + dy>>
    IN  IF nxt[1] < 0 \/ nxt[1] > 7 \/ nxt[2] < 0 \/ nxt[2] > 7 THEN <<>>
        ELSE IF get_from_pos(g, nxt) # None THEN <<nxt>>
        ELSE <<nxt>> \o Slide(g, nxt, dx, dy)

RookMoves(g, pos) ==
    Slide(g, pos, 1, 0) \o Slide(g, pos, -1, 0) \o Slide(g, pos, 0, 1) \o Slide(g, pos, 0, -1)

BishopMoves(g, pos) ==
    Slide(g, pos, 1, 1) \o Slide(g, pos, 1, -1) \o Slide(g, pos, -1, 1) \o Slide(g, pos, -1, -1)

QueenMoves(g, pos) == BishopMoves(g, pos) \o RookMoves(g, pos)

OnBoard(sq) == sq[1] >= 0 /\ sq[1] <= 7 /\ sq[2] >= 0 /\ sq[2] <= 7

KnightOffsets ==
    << <<-1, -2>>, <<-1, 2>>, <<1, -2>>, <<1, 2>>,
       <<-2, -1>>, <<-2, 1>>, <<2, -1>>, <<2, 1>> >>

KnightMoves(pos) ==
    LET all == [i \in 1..8 |-> <<pos[1] + KnightOffsets[i][1], pos[2] + KnightOffsets[i][2]>>]
    IN  SelectSeq(all, OnBoard)

KingOffsets ==
    << <<-1, 0>>, <<-1, -1>>, <<-1, 1>>, <<1, 0>>, <<1, -1>>, <<1, 1>>,
       <<0, -1>>, <<0, 1>> >>

KingSteps(pos) ==
    LET all == [i \in 1..8 |-> <<pos[1] + KingOffsets[i][1], pos[2] + KingOffsets[i][2]>>]
    IN  SelectSeq(all, OnBoard)

---------------------------------------------------------------------------
(* Castling candidates, the legality filter and the check oracle           *)

NoPanic(v) == [panic |-> FALSE, value |-> v]

Panic == [panic |-> TRUE, value |-> <<>>]

HomeSquare(color) == IF color = "White" THEN <<4, 0>> ELSE <<4, 7>>

\* The castling flag of a colour towards dir (-1: left / queenside, 1: right).
CanCastle(g, color, dir) ==
    IF color = "White"
    THEN (IF dir = -1 THEN g.white_can_castle_left ELSE g.white_can_castle_right)
    ELSE (IF dir = -1 THEN g.black_can_castle_left ELSE g.black_can_castle_right)

\* A rook test that accepts a rook of the other colour only.
RookReady_other_color(sim, pos, piece, dir) ==
    LET rook == get_from_pos(sim, <<IF dir = -1 THEN 0 ELSE 7, pos[2]>>)
    IN  /\ get_from_pos(sim, <<IF dir = -1 THEN 1 ELSE 6, pos[2]>>) = None
        /\ rook # None
        /\ rook.color # piece.color
        /\ rook.kind = "Rook"

\* The i == 3 branch of the castling loop: the square next to the rook is
\* empty on the simulated board and the corner holds a rook of the own colour.
RookReady(sim, pos, piece, dir) ==
    LET rook == get_from_pos(sim, <<IF dir = -1 THEN 0 ELSE 7, pos[2]>>)
    IN  /\ get_from_pos(sim, <<IF dir = -1 THEN 1 ELSE 6, pos[2]>>) = None
        /\ rook # None
        /\ rook.color = piece.color
        /\ rook.kind = "Rook"

RookHop(pos, dir) ==
    IF dir = -1 THEN <<<<0, pos[2]>>, <<3, pos[2]>>>> ELSE <<<<7, pos[2]>>, <<5, pos[2]>>>>

RECURSIVE in_check(_, _), check_valid_moves(_, _, _), raw_moves(_, _),
          castle_loop(_, _, _, _, _, _), in_check_loop(_, _, _, _),
          candidate_kept(_, _, _, _), filter_loop(_, _, _, _)

\* `for i in 1..4` of one castling wing: sim is the clone the king is moved on,
\* acc the sub-moves pushed so far.  The king is always moved from pos.
castle_loop(sim, pos, piece, dir, i, acc) ==
    IF i = 3 THEN
        NoPanic(IF RookReady(sim, pos, piece, dir)
                THEN <<Append(acc, RookHop(pos, dir))>> ELSE <<>>)
    ELSE LET p == <<pos[1] + dir * i, pos[2]>>
             r == move_piece(sim, pos, p)
         IN  IF r.ret # None THEN NoPanic(<<>>)
             ELSE LET c == in_check(r.game, piece.color)
                  IN  IF c.panic THEN Panic
                      ELSE IF c.value THEN NoPanic(<<>>)
                      ELSE castle_loop(r.game, pos, piece, dir, i + 1,
                                       Append(acc, <<<<p[1] - dir, p[2]>>, p>>))

\* The castling candidate of one wing (none unless the king stands on its
\* home square and the flag of the wing is set).
Castle(g, pos, piece, dir) ==
    IF pos = HomeSquare(piece.color) /\ CanCastle(g, piece.color, dir)
    THEN castle_loop(g, pos, piece, dir, 1, <<>>)
    ELSE NoPanic(<<>>)

Singles(pos, moves) == [i \in 1..Len(moves) |-> << <<pos, moves[i]>> >>]

\* get_from_pos indexes the board arrays with pos: an index above 7 aborts.
raw_moves(g, pos) ==
    LET piece == get_from_pos(g, pos)
    IN  IF pos[1] > 7 \/ pos[2] > 7 THEN Panic
        ELSE IF piece = None THEN NoPanic(<<>>)
        ELSE IF piece.kind = "Pawn" THEN
            LET pm == PawnMoves(g, pos, piece)
            IN  NoPanic(pm.result \o Singles(pos, pm.moves))
        ELSE IF piece.kind = "Rook" THEN NoPanic(Singles(pos, RookMoves(g, pos)))
        ELSE IF piece.kind = "Bishop" THEN NoPanic(Singles(pos, BishopMoves(g, pos)))
        ELSE IF piece.kind = "Queen" THEN NoPanic(Singles(pos, QueenMoves(g, pos)))
        ELSE IF piece.kind = "Knight" THEN NoPanic(Singles(pos, KnightMoves(pos)))
        ELSE LET left == Castle(g, pos, piece, -1)
             IN  IF left.panic THEN Panic
                 ELSE LET right == Castle(g, pos, piece, 1)
                      IN  IF right.panic THEN Panic
                          ELSE NoPanic(left.value \o right.value
                                       \o Singles(pos, KingSteps(pos)))

\* check_for_check: would the move from -> to leave the mover's king in check.
\* A check_for_check that looks at the other colour's king instead.
check_for_check_other_color(g, from, to) ==
    LET piece == get_from_pos(g, from)
    IN  IF piece = None THEN [panic |-> TRUE, value |-> FALSE]
        ELSE in_check(move_piece(g, from, to).game, Opposite(piece.color))

check_for_check(g, from, to) ==
    LET piece == get_from_pos(g, from)
    IN  IF piece = None THEN [panic |-> TRUE, value |-> FALSE]
        ELSE in_check(move_piece(g, from, to).game, piece.color)

\* The inner loop of check_valid_moves over the sub-moves of one candidate,
\* from sub-move j on, sim being the clone the earlier sub-moves were applied
\* to: "keep", "drop" or "panic".
candidate_kept(sim, m, j, test_check) ==
    IF j > Len(m) THEN "keep"
    ELSE LET from == m[j][1]
             to   == m[j][2]
         IN  IF OutOfBounds(from, to) THEN "drop"
             ELSE LET piece == get_from_pos(sim, from)
                      other == get_from_pos(sim, to)
                  IN  IF piece = None THEN "panic"
                      ELSE IF other # None /\ other.color = piece.color THEN "drop"
                      ELSE LET c == IF test_check THEN check_for_check(sim, from, to)
                                    ELSE NoPanic(FALSE)
                           IN  IF c.panic THEN "panic"
                               ELSE IF c.value THEN "drop"
                               ELSE candidate_kept(move_piece(sim, from, to).game,
                                                   m, j + 1, test_check)

\* The outer loop of check_valid_moves: the candidates from index i on that
\* are not removed.
filter_loop(g, result, i, test_check) ==
    IF i > Len(result) THEN NoPanic(<<>>)
    ELSE LET k == candidate_kept(g, result[i], 1, test_check)
         IN  IF k = "panic" THEN Panic
             ELSE LET rest == filter_loop(g, result, i + 1, test_check)
                  IN  IF rest.panic THEN Panic
                      ELSE NoPanic((IF k = "keep" THEN <<result[i]>> ELSE <<>>)
                                   \o rest.value)

\* A check_valid_moves that never tests the candidates for check.
check_valid_moves_untested(g, pos, test_check) ==
    LET result == raw_moves(g, pos)
    IN  IF result.panic THEN Panic
        ELSE filter_loop(g, result.value, 1, FALSE)

check_valid_moves(g, pos, test_check) ==
    LET result == raw_moves(g, pos)
    IN  IF result.panic THEN Panic
        ELSE filter_loop(g, result.value, 1, test_check)

\* A valid_moves that answers only for the pieces of the side whose turn it
\* is by the turn counter.
valid_moves_on_turn(g, pos) ==
    LET r == check_valid_moves(g, pos, TRUE)
    IN  IF r.panic \/ get_from_pos(g, pos) = None THEN r
        ELSE IF get_from_pos(g, pos).color = (IF g.turn % 2 = 1 THEN "White" ELSE "Black")
        THEN r
        ELSE NoPanic(<<>>)

valid_moves(g, pos) == check_valid_moves(g, pos, TRUE)

\* Does a sub-move of one of the sequences end on the square king.
Reaches(seqs, king) ==
    \E i \in 1..Len(seqs) : \E j \in 1..Len(seqs[i]) : seqs[i][j][2] = king

\* `for piece in self.by_color(other)` of in_check, from the k-th piece on.
in_check_loop(g, king, pieces, k) ==
    IF k > Len(pieces) THEN [panic |-> FALSE, value |-> FALSE]
    ELSE LET r == check_valid_moves(g, pieces[k], FALSE)
         IN  IF r.panic THEN [panic |-> TRUE, value |-> FALSE]
             ELSE IF Reaches(r.value, king) THEN [panic |-> FALSE, value |-> TRUE]
             ELSE in_check_loop(g, king, pieces, k + 1)

\* An in_check that never aborts for a missing king.
in_check_lenient(g, color) ==
    IF g.ignore_check THEN [panic |-> FALSE, value |-> FALSE]
    ELSE LET list == by_kind_and_color(g, "King", color)
         IN  IF Len(list) = 0 THEN [panic |-> FALSE, value |-> FALSE]
             ELSE in_check_loop(g, list[1], by_color(g, Opposite(color)), 1)

in_check(g, color) ==
    IF g.ignore_check THEN [panic |-> FALSE, value |-> FALSE]
    ELSE LET list == by_kind_and_color(g, "King", color)
         IN  IF Len(list) = 0 THEN
                 (IF g.ignore_kings THEN [panic |-> FALSE, value |-> FALSE]
                  ELSE [panic |-> TRUE, value |-> FALSE])
             ELSE in_check_loop(g, list[1], by_color(g, Opposite(color)), 1)

---------------------------------------------------------------------------
(* check_victory and the advisory draw queries                             *)

\* Option::None of check_victory.
NoVictory == [status |-> "None", color |-> "None"]

Victory(status, color) == [status |-> status, color |-> color]

\* The number of snapshots of the history equal to the latest one.
Matches(g) ==
    LET h == g.board_history
    IN  Cardinality({i \in 1..Len(h) : h[i] = h[Len(h)]})

\* A clock draw that needs more than 75.
DrawByClock_late(g) == g.seventy_five_move_rule > 75

DrawByClock(g) == g.seventy_five_move_rule >= 75

DrawByRepetition(g) == Len(g.board_history) >= 5 /\ Matches(g) >= 5

\* A three-fold test that asks for exactly three equal snapshots.
three_fold_repetition_exact(g) == Len(g.board_history) >= 3 /\ Matches(g) = 3

three_fold_repetition(g) == Len(g.board_history) >= 3 /\ Matches(g) >= 3

fifty_move_rule(g) == g.seventy_five_move_rule >= 50

\* `for (pos, _) in pieces` of check_victory, from the k-th piece on: does a
\* piece have a legal move ("yes"), does none ("no"), or did the search abort.
RECURSIVE has_moves(_, _, _)
has_moves(g, pieces, k) ==
    IF k > Len(pieces) THEN "no"
    ELSE LET r == valid_moves(g, pieces[k])
         IN  IF r.panic THEN "panic"
             ELSE IF Len(r.value) > 0 THEN "yes"
             ELSE has_moves(g, pieces, k + 1)

\* A verdict that names the colour without moves as the winner of a mate.
Verdict_mate_for_loser(g, color) ==
    LET hm == has_moves(g, by_color(g, color), 1)
    IN  IF hm = "panic" THEN Panic
        ELSE IF hm = "yes" THEN NoPanic(NoVictory)
        ELSE LET c == in_check(g, color)
             IN  IF c.panic THEN Panic
                 ELSE IF c.value THEN NoPanic(Victory("Checkmate", color))
                 ELSE IF g.last_color # color
                      THEN NoPanic(Victory("Stalemate", Opposite(color)))
                 ELSE NoPanic(NoVictory)

\* A verdict that declares stalemate when the colour itself moved last.
Verdict_last_color_same(g, color) ==
    LET hm == has_moves(g, by_color(g, color), 1)
    IN  IF hm = "panic" THEN Panic
        ELSE IF hm = "yes" THEN NoPanic(NoVictory)
        ELSE LET c == in_check(g, color)
             IN  IF c.panic THEN Panic
                 ELSE IF c.value THEN NoPanic(Victory("Checkmate", Opposite(color)))
                 ELSE IF g.last_color = color
                      THEN NoPanic(Victory("Stalemate", Opposite(color)))
                 ELSE NoPanic(NoVictory)

\* One pass of the 'outer loop of check_victory for a colour: the verdict it
\* returns, or NoVictory when the loop goes on to the next colour.
Verdict(g, color) ==
    LET hm == has_moves(g, by_color(g, color), 1)
    IN  IF hm = "panic" THEN Panic
        ELSE IF hm = "yes" THEN NoPanic(NoVictory)
        ELSE LET c == in_check(g, color)
             IN  IF c.panic THEN Panic
                 ELSE IF c.value THEN NoPanic(Victory("Checkmate", Opposite(color)))
                 ELSE IF g.last_color # color
                      THEN NoPanic(Victory("Stalemate", Opposite(color)))
                 ELSE NoPanic(NoVictory)

check_victory(g) ==
    IF DrawByClock(g) THEN NoPanic(Victory("Draw", "White"))
    ELSE IF DrawByRepetition(g) THEN NoPanic(Victory("Draw", "White"))
    ELSE LET b == Verdict(g, "Black")
         IN  IF b.panic \/ b.value # NoVictory THEN b
             ELSE Verdict(g, "White")

---------------------------------------------------------------------------
(* Algebraic notation: move_to_an, an_to_move and string_to_pos.  A string *)
(* is the sequence of its characters; the strings of the model are ASCII,  *)
(* so that byte and character indices coincide.                            *)

UpperFiles == <<"A", "B", "C", "D", "E", "F", "G", "H">>

LowerFiles == <<"a", "b", "c", "d", "e", "f", "g", "h">>

RankDigits == <<"1", "2", "3", "4", "5", "6", "7", "8">>

InSeq(s, c) == \E i \in 1..Len(s) : s[i] = c

IndexIn(s, c) == CHOOSE i \in 1..Len(s) : s[i] = c

\* Result<(usize, usize), i32>: Err(1) and Err(2) are not told apart by
\* the callers.
PosErr == [ok |-> FALSE, pos |-> <<8, 8>>]

string_to_pos(string) ==
    IF Len(string) # 2 THEN PosErr
    ELSE IF ~InSeq(UpperFiles, string[1]) /\ ~InSeq(LowerFiles, string[1]) THEN PosErr
    ELSE IF ~InSeq(RankDigits, string[2]) THEN PosErr
    ELSE [ok  |-> TRUE,
          pos |-> <<(IF InSeq(UpperFiles, string[1]) THEN IndexIn(UpperFiles, string[1])
                     ELSE IndexIn(LowerFiles, string[1])) - 1,
                    IndexIn(RankDigits, string[2]) - 1>>]

\* The `match ... { 0 => 'a', ... }` of move_to_an for a file and a rank.
FileChar(x) == LowerFiles[x + 1]

RankChar(y) == RankDigits[y + 1]

\* A notation that leaves the piece letter out.
PieceLetter_none(kind) == <<>>

\* The letter move_to_an starts the move of a piece other than a pawn with.
PieceLetter(kind) ==
    IF kind = "Rook" THEN <<"R">>
    ELSE IF kind = "Knight" THEN <<"N">>
    ELSE IF kind = "Bishop" THEN <<"B">>
    ELSE IF kind = "Queen" THEN <<"Q">>
    ELSE <<"K">>

\* The black chess symbol of the kind, one character.
PieceSymbol(kind) ==
    IF kind = "Rook" THEN <<"U+265C">>
    ELSE IF kind = "Knight" THEN <<"U+265E">>
    ELSE IF kind = "Bishop" THEN <<"U+265D">>
    ELSE IF kind = "Queen" THEN <<"U+265B">>
    ELSE <<"U+265A">>

\* A sub-move of m ends on a square that holds a piece of the other colour.
CapturesIn(g, m, color) ==
    \E k \in 1..Len(m) :
        /\ get_from_pos(g, m[k][2]) # None
        /\ get_from_pos(g, m[k][2]).color # color

\* The loop of move_to_an over the pieces of the kind and colour of the
\* mover, from the k-th on: the flags row and col, or "panic".
RECURSIVE Disambiguate(_, _, _, _, _, _)
Disambiguate(g, pieces, k, from, dest, flags) ==
    IF k > Len(pieces) THEN flags
    ELSE LET pos == pieces[k]
         IN  IF pos[1] # from[1] /\ pos[2] # from[2] THEN
                 LET r    == valid_moves(g, pos)
                     hits == \E i \in 1..Len(r.value) :
                                 r.value[i][Len(r.value[i])][2] = dest
                 IN  IF r.panic THEN [panic |-> TRUE, row |-> FALSE, col |-> FALSE]
                     ELSE Disambiguate(g, pieces, k + 1, from, dest,
                              IF ~hits THEN flags
                              ELSE IF pos[1] = from[1] THEN [flags EXCEPT !.row = TRUE]
                              ELSE [flags EXCEPT !.col = TRUE])
             ELSE Disambiguate(g, pieces, k + 1, from, dest, flags)

\* Variant of Suffix: "+" is added only when result is set.
Suffix_flagged(g, m, color, result) ==
    LET after == move_pieces(g, m).game
        v     == check_victory(after)
    IN  IF v.panic THEN Panic
        ELSE IF ~result THEN NoPanic(<<>>)
        ELSE IF v.value # NoVictory THEN
            NoPanic(IF v.value.status = "Checkmate"
                    THEN <<"#", " ">> \o (IF color = "White" THEN <<"1", "-", "0">> ELSE <<"0", "-", "1">>)
                    ELSE <<" ", "U+00BD", "-", "U+00BD">>)
        ELSE LET c == in_check(after, Opposite(color))
             IN  IF c.panic THEN Panic
                 ELSE NoPanic(IF c.value THEN <<"+">> ELSE <<>>)

\* The end of move_to_an: the move is applied to a clone and "#", the result
\* or "+" is added.
Suffix(g, m, color, result) ==
    LET after == move_pieces(g, m).game
        v     == check_victory(after)
    IN  IF v.panic THEN Panic
        ELSE IF v.value # NoVictory THEN
            NoPanic(IF ~result THEN <<>>
                    ELSE IF v.value.status = "Checkmate"
                    THEN <<"#", " ">> \o (IF color = "White" THEN <<"1", "-", "0">>
                                           ELSE <<"0", "-", "1">>)
                    ELSE <<" ", "U+00BD", "-", "U+00BD">>)
        ELSE LET c == in_check(after, Opposite(color))
             IN  IF c.panic THEN Panic
                 ELSE NoPanic(IF c.value THEN <<"+">> ELSE <<>>)

move_to_an(g, m, result, unicode) ==
    IF Len(m) = 0 \/ OutOfBounds(m[1][1], m[1][1]) THEN Panic
    ELSE IF get_from_pos(g, m[1][1]) = None THEN Panic
    ELSE
    LET piece   == get_from_pos(g, m[1][1])
        from    == m[1][1]
        dest    == m[Len(m)][2]
        capture == CapturesIn(g, m, piece.color)
        tail    == Suffix(g, m, piece.color, result)
    IN  IF Len(m) = 3 THEN
            (IF m[1][2][1] = 3 THEN
                 (IF tail.panic THEN Panic
                  ELSE NoPanic(<<"0", "-", "0", "-", "0">> \o tail.value))
             ELSE IF m[1][2][1] = 5 THEN
                 (IF tail.panic THEN Panic ELSE NoPanic(<<"0", "-", "0">> \o tail.value))
             ELSE Panic)
        ELSE
        LET head  == IF piece.kind = "Pawn"
                     THEN (IF capture THEN <<FileChar(from[1])>> ELSE <<>>)
                     ELSE IF unicode THEN PieceSymbol(piece.kind)
                     ELSE PieceLetter(piece.kind)
            flags == Disambiguate(g, by_kind_and_color(g, piece.kind, piece.color), 1,
                                  from, dest,
                                  [panic |-> FALSE, row |-> FALSE, col |-> FALSE])
        IN  IF flags.panic THEN Panic
            ELSE IF Len(m) = 2 /\ piece.kind # "Pawn" THEN Panic
            ELSE IF tail.panic THEN Panic
            ELSE NoPanic(
                   head
                   \o (IF flags.col THEN <<FileChar(from[1])>> ELSE <<>>)
                   \o (IF flags.row THEN <<RankChar(from[2])>> ELSE <<>>)
                   \o (IF capture THEN <<"x">> ELSE <<>>)
                   \o <<FileChar(dest[1]), RankChar(dest[2])>>
                   \o (IF Len(m) = 2 THEN <<"e", ".", "p", ".">> ELSE <<>>)
                   \o (IF piece.kind = "Pawn" /\ (dest[2] = 7 \/ dest[2] = 0)
                       THEN <<"=", "Q">> ELSE <<>>)
                   \o tail.value)

\* Option<Vec<...>> of an_to_move.
NoMove == [some |-> FALSE, m |-> <<>>]

SomeMove(m) == [some |-> TRUE, m |-> m]

\* Option<usize>::None of pos_x, pos_y, target_pos_x and target_pos_y.
NoCoord == 8

\* `opt.unwrap_or(v) == v`
Fits(opt, v) == opt = NoCoord \/ opt = v

\* `match s.chars().nth(0)` of an_to_move.
KindOf(c) ==
    IF c \in {"R", "U+2656", "U+265C"} THEN "Rook"
    ELSE IF c \in {"N", "U+2658", "U+265E"} THEN "Knight"
    ELSE IF c \in {"B", "U+2657", "U+265D"} THEN "Bishop"
    ELSE IF c \in {"Q", "U+2655", "U+265B"} THEN "Queen"
    ELSE IF c \in {"K", "U+2654", "U+265A"} THEN "King"
    ELSE "Pawn"

\* The first castling sequence, or king move, an_to_move accepts for "0-0"
\* (file 5) and "0-0-0" (file 3), from the i-th move of the king on.
RECURSIVE FirstToFile(_, _, _)
FirstToFile(moves, i, file) ==
    IF i > Len(moves) THEN NoMove
    ELSE IF moves[i][1][2][1] = file THEN SomeMove(moves[i])
    ELSE FirstToFile(moves, i + 1, file)

\* The moves of a list that end on the target.
RECURSIVE OnTarget(_, _, _)
OnTarget(moves, i, target) ==
    IF i > Len(moves) THEN <<>>
    ELSE LET last == moves[i][Len(moves[i])][2]
         IN  (IF Fits(target[1], last[1]) /\ Fits(target[2], last[2])
              THEN <<moves[i]>> ELSE <<>>)
             \o OnTarget(moves, i + 1, target)

\* Variant of Search: the first match is returned, later matches ignored.
RECURSIVE Search_first(_, _, _, _, _, _)
Search_first(g, pieces, k, origin, target, result) ==
    IF k > Len(pieces) THEN NoPanic(result)
    ELSE LET p == pieces[k]
         IN  IF Fits(origin[1], p[1]) /\ Fits(origin[2], p[2]) THEN
                 LET r    == valid_moves(g, p)
                     hits == OnTarget(r.value, 1, target)
                 IN  IF r.panic THEN [panic |-> TRUE, value |-> NoMove]
                     ELSE IF Len(hits) = 0
                     THEN Search_first(g, pieces, k + 1, origin, target, result)
                     ELSE NoPanic(SomeMove(hits[1]))
             ELSE Search_first(g, pieces, k + 1, origin, target, result)

\* The search of an_to_move through the pieces of the kind and colour, from
\* the k-th on, result being the move found so far.
RECURSIVE Search(_, _, _, _, _, _)
Search(g, pieces, k, origin, target, result) ==
    IF k > Len(pieces) THEN NoPanic(result)
    ELSE LET p == pieces[k]
         IN  IF Fits(origin[1], p[1]) /\ Fits(origin[2], p[2]) THEN
                 LET r    == valid_moves(g, p)
                     hits == OnTarget(r.value, 1, target)
                 IN  IF r.panic THEN [panic |-> TRUE, value |-> NoMove]
                     ELSE IF Len(hits) = 0
                     THEN Search(g, pieces, k + 1, origin, target, result)
                     ELSE IF result.some \/ Len(hits) > 1 THEN NoPanic(NoMove)
                     ELSE Search(g, pieces, k + 1, origin, target, SomeMove(hits[1]))
             ELSE Search(g, pieces, k + 1, origin, target, result)

\* The squares an_to_move reads from the text of a pawn move of length len
\* (the decorations "e.p." and "=Q" cut off): [ok, origin, target].
PawnSquares(s, len) ==
    LET t  == string_to_pos(SubSeq(s, len - 1, len))
        t1 == string_to_pos(<<s[len], "1">>)
        o  == string_to_pos(SubSeq(s, 1, 2))
        o1 == string_to_pos(<<s[1], "1">>)
        target == IF t.ok THEN t.pos ELSE <<t1.pos[1], NoCoord>>
        origin == IF o.ok THEN (IF len > 2 THEN o.pos ELSE <<NoCoord, NoCoord>>)
                  ELSE <<o1.pos[1], NoCoord>>
    IN  [ok     |-> (t.ok \/ t1.ok) /\ (o.ok \/ o1.ok),
         origin |-> origin,
         target |-> target]

\* The squares an_to_move reads from the text of the move of another piece.
PieceSquares(s, len) ==
    IF len < 3 THEN [ok |-> FALSE, origin |-> <<NoCoord, NoCoord>>, target |-> <<NoCoord, NoCoord>>]
    ELSE
    LET t  == string_to_pos(SubSeq(s, len - 1, len))
        o  == string_to_pos(SubSeq(s, 2, 3))
        of == string_to_pos(<<s[2], "1">>)
        or == string_to_pos(<<"E", s[2]>>)
        hintOk == len = 3 \/ o.ok \/ s[2] = "x" \/ of.ok \/ or.ok
        origin == IF len = 3 THEN <<NoCoord, NoCoord>>
                  ELSE IF o.ok THEN o.pos
                  ELSE IF s[2] = "x" THEN <<NoCoord, NoCoord>>
                  ELSE IF of.ok THEN <<of.pos[1], NoCoord>>
                  ELSE <<NoCoord, or.pos[2]>>
    IN  [ok |-> hintOk /\ t.ok, origin |-> origin, target |-> t.pos]

an_to_move(g, s, color) ==
    IF Len(s) < 2 THEN NoPanic(NoMove)
    ELSE IF s = <<"0", "-", "0">> \/ s = <<"0", "-", "0", "-", "0">> THEN
        LET tmp == by_kind_and_color(g, "King", color)
        IN  IF Len(tmp) = 0 THEN [panic |-> TRUE, value |-> NoMove]
            ELSE LET r == valid_moves(g, tmp[Len(tmp)])
                 IN  IF r.panic THEN [panic |-> TRUE, value |-> NoMove]
                     ELSE NoPanic(FirstToFile(r.value, 1, IF Len(s) = 3 THEN 5 ELSE 3))
    ELSE
    LET kind == KindOf(s[1])
        n    == Len(s)
        len  == IF kind # "Pawn" THEN n
                ELSE IF n >= 6 /\ SubSeq(s, n - 3, n) = <<"e", ".", "p", ".">> THEN n - 4
                ELSE IF n >= 4 /\ SubSeq(s, n - 1, n) = <<"=", "Q">> THEN n - 2
                ELSE n
        sq   == IF kind = "Pawn" THEN PawnSquares(s, len) ELSE PieceSquares(s, len)
    IN  IF ~sq.ok THEN NoPanic(NoMove)
        ELSE Search(g, by_kind_and_color(g, kind, color), 1, sq.origin, sq.target, NoMove)

---------------------------------------------------------------------------
(* Positions the game is set up in: Game::new(), or Game::new_empty()      *)
(* followed by set_at_pos calls, as in the examples of the source.         *)

WP == WHITE[0]
WR == WHITE[1]
WN == WHITE[2]
WB == WHITE[3]
WQ == WHITE[4]
WK == WHITE[5]
BP == BLACK[0]
BR == BLACK[1]
BN == BLACK[2]
BB == BLACK[3]
BQ == BLACK[4]
BK == BLACK[5]

\* new_empty() followed by set_at_pos(placed[k][1], placed[k][2]) for each k.
RECURSIVE Place(_, _, _)
Place(g, placed, k) ==
    IF k > Len(placed) THEN g
    ELSE Place(set_at_pos(g, placed[k][1], placed[k][2]), placed, k + 1)

Setup(placed) == Place(new_empty, placed, 1)

\* White king and rooks on their original squares, nothing between them.
CastleWhite ==
    Setup(<< <<<<4, 0>>, WK>>, <<<<0, 0>>, WR>>, <<<<7, 0>>, WR>>, <<<<6, 6>>, BK>> >>)

\* Black king and rooks on their original squares, nothing between them.
CastleBlack ==
    Setup(<< <<<<4, 7>>, BK>>, <<<<0, 7>>, BR>>, <<<<7, 7>>, BR>>, <<<<6, 1>>, WK>> >>)

\* White ready to castle with a black knight on c1.
CastleKnight ==
    Setup(<< <<<<4, 0>>, WK>>, <<<<0, 0>>, WR>>, <<<<7, 0>>, WR>>,
             <<<<2, 0>>, BN>>, <<<<6, 6>>, BK>> >>)

\* White ready to castle, a black rook attacking f1 and a black bishop
\* attacking b1.
CastleAttacked ==
    Setup(<< <<<<4, 0>>, WK>>, <<<<0, 0>>, WR>>, <<<<7, 0>>, WR>>,
             <<<<5, 7>>, BR>>, <<<<7, 5>>, BB>>, <<<<6, 6>>, BK>> >>)

\* White pawns on e5 and b5; black pawns on d7 and f7 and a black rook on a7
\* that can all move two squares next to them.
PassantReady ==
    Setup(<< <<<<6, 0>>, WK>>, <<<<4, 4>>, WP>>, <<<<1, 4>>, WP>>,
             <<<<6, 7>>, BK>>, <<<<3, 6>>, BP>>, <<<<5, 6>>, BP>>, <<<<0, 6>>, BR>> >>)

\* The white pawn on c5 shields its king on d4 from the bishop on a7; the
\* black pawn on b7 can double-step next to it.
PassantPinned ==
    Setup(<< <<<<3, 3>>, WK>>, <<<<2, 4>>, WP>>,
             <<<<7, 7>>, BK>>, <<<<1, 6>>, BP>>, <<<<0, 6>>, BB>> >>)

\* Black mates with Rd8-d1.
MateInOne ==
    Setup(<< <<<<0, 0>>, WK>>, <<<<0, 1>>, WP>>, <<<<1, 1>>, WP>>,
             <<<<7, 7>>, BK>>, <<<<6, 6>>, BP>>, <<<<7, 6>>, BP>>, <<<<3, 7>>, BR>> >>)

\* Both kings are in check and neither colour has a legal move.
DoubleMate ==
    Setup(<< <<<<0, 0>>, WK>>, <<<<0, 1>>, WP>>, <<<<1, 1>>, WP>>, <<<<4, 7>>, WR>>,
             <<<<7, 7>>, BK>>, <<<<6, 6>>, BP>>, <<<<7, 6>>, BP>>, <<<<3, 0>>, BR>> >>)

\* Black has no legal move and is not in check; White placed last.
StalematePos ==
    Setup(<< <<<<0, 7>>, BK>>, <<<<2, 6>>, WK>>, <<<<1, 5>>, WQ>> >>)

\* Black stalemates White with Qb8-b3.
StalemateInOne ==
    Setup(<< <<<<0, 0>>, WK>>, <<<<2, 1>>, BK>>, <<<<1, 7>>, BQ>> >>)

\* White has no legal move and is not in check (both knights are pinned),
\* Black is in double check with no legal move, and Black placed last.
StaleAndMate ==
    Setup(<< <<<<0, 0>>, WK>>, <<<<1, 0>>, WN>>, <<<<0, 1>>, WN>>,
             <<<<2, 2>>, BK>>, <<<<7, 0>>, BR>>, <<<<0, 7>>, BR>>,
             <<<<1, 2>>, BP>>, <<<<2, 1>>, BP>>, <<<<2, 3>>, BP>>,
             <<<<3, 2>>, BP>>, <<<<3, 3>>, BP>> >>)

\* Black mates with Rd8-a8 and stalemates with Qb8-b3; the rook can shuttle
\* between d8 and e8 without changing either.
DrawBoard ==
    Setup(<< <<<<0, 0>>, WK>>, <<<<2, 1>>, BK>>, <<<<1, 7>>, BQ>>, <<<<3, 7>>, BR>> >>)

\* The positions the operations of the engine are tried on.
Positions == { new, CastleWhite, CastleBlack, PassantReady }

\* The positions legal play is tried on.
PlayPositions ==
    { CastleWhite, CastleBlack, CastleKnight, CastleAttacked, PassantReady,
      PassantPinned, MateInOne, DoubleMate, StalematePos, StalemateInOne, StaleAndMate }

---------------------------------------------------------------------------
(* The state machine: a Game driven through its public operations          *)

\* The number of operations applied to a game in one behaviour.
MaxSteps == 2

\* The number of plies applied to a game in one behaviour of legal play.
MaxPlies == 3

\* The (origin, destination) pairs a caller proposes; a proposal is played
\* when a sequence returned by valid_moves(origin) ends on the destination.
Proposals ==
    { <<<<4, 0>>, <<5, 0>>>>, <<<<4, 0>>, <<3, 0>>>>, <<<<0, 0>>, <<0, 1>>>>,
      <<<<4, 7>>, <<5, 7>>>>, <<<<4, 7>>, <<3, 7>>>>, <<<<7, 7>>, <<7, 6>>>>,
      <<<<3, 6>>, <<3, 4>>>>, <<<<5, 6>>, <<5, 4>>>>, <<<<0, 6>>, <<0, 4>>>>,
      <<<<1, 6>>, <<1, 4>>>>, <<<<4, 4>>, <<3, 5>>>>, <<<<4, 4>>, <<5, 5>>>>,
      <<<<4, 4>>, <<4, 5>>>>, <<<<1, 4>>, <<0, 5>>>>, <<<<2, 4>>, <<1, 5>>>>,
      <<<<3, 7>>, <<3, 0>>>>, <<<<4, 1>>, <<4, 3>>>>, <<<<6, 0>>, <<5, 2>>>>,
      <<<<1, 5>>, <<1, 6>>>>, <<<<6, 0>>, <<6, 1>>>>, <<<<6, 6>>, <<6, 5>>>>,
      <<<<1, 7>>, <<1, 2>>>> }

Origins == {pr[1] : pr \in Proposals}

\* The arguments move_piece is called with directly (8 is out of bounds).
RawMoves ==
    { <<<<4, 0>>, <<4, 1>>>>, <<<<0, 0>>, <<0, 2>>>>, <<<<3, 6>>, <<3, 4>>>>,
      <<<<4, 0>>, <<8, 0>>>> }

\* The arguments set_at_pos is called with.
Placements == { <<<<0, 0>>, WR>>, <<<<4, 0>>, None>> }

\* No pawn is known to have just double-stepped.
NoStep == [sq |-> <<8, 8>>, age |-> 0]

IsDoubleStep(piece, from, to) ==
    /\ piece.kind = "Pawn"
    /\ from[1] = to[1]
    /\ from[2] = StartRank(piece.color)
    /\ to[2] = from[2] + 2 * Forward(piece.color)

\* History variable dstep after move_piece(from, to) on game g: the square of
\* the pawn that double-stepped most recently and has stood there since, and
\* the number of moves applied after its double-step.
StepAfter(d, g, from, to) ==
    IF OutOfBounds(from, to) \/ get_from_pos(g, from) = None THEN d
    ELSE IF IsDoubleStep(get_from_pos(g, from), from, to) THEN [sq |-> to, age |-> 0]
    ELSE IF d = NoStep \/ d.sq = from \/ d.sq = to THEN NoStep
    ELSE [d EXCEPT !.age = @ + 1]

RECURSIVE StepAfterAll(_, _, _, _)
StepAfterAll(d, g, moves, k) ==
    IF k > Len(moves) THEN d
    ELSE StepAfterAll(StepAfter(d, g, moves[k][1], moves[k][2]),
                      move_piece(g, moves[k][1], moves[k][2]).game, moves, k + 1)

---------------------------------------------------------------------------
(* The contract (src/src/contract.rs): a game of rock, paper, scissors      *)
(* between a host and an opponent, and a leaderboard of wins.  The storage  *)
(* holds the maps GAMES and LEADERBOARD, the admin and the hooks, the       *)
(* blacklist of hosts.                                                      *)

GameMoves == {"Rock", "Paper", "Scissors", "NotPlayed"}

\* The senders of the tests; the admin of the tests.
Addresses == {"mario", "luigi"}

INIT_ADMIN == "juan"

\* A text api.addr_validate refuses.
BadAddress == ""

addr_validate(a) == a \in Addresses \cup {INIT_ADMIN}

\* The storage after instantiate with the admin of the tests.
instantiate ==
    [GAMES |-> <<>>, LEADERBOARD |-> <<>>, ADMIN |-> INIT_ADMIN, HOOKS |-> {}]

\* Map::save and Map::remove.
Save(map, key, value) ==
    [k \in DOMAIN map \cup {key} |-> IF k = key THEN value ELSE map[k]]

Remove(map, key) == [k \in DOMAIN map \ {key} |-> map[k]]

\* Variant of resolve_game: the host wins whenever the moves differ.
resolve_game_host(host_move, opp_move) ==
    IF host_move = opp_move THEN "Tie" ELSE "Win"

resolve_game(host_move, opp_move) ==
    IF host_move = opp_move THEN "Tie"
    ELSE IF opp_move = "NotPlayed" THEN "Tie"
    ELSE IF host_move = "Scissors" THEN (IF opp_move = "Rock" THEN "Loss" ELSE "Win")
    ELSE IF host_move = "Rock" THEN (IF opp_move = "Paper" THEN "Loss" ELSE "Win")
    ELSE IF host_move = "Paper" THEN (IF opp_move = "Scissors" THEN "Loss" ELSE "Win")
    ELSE "Tie"

\* A failed message leaves the storage as it was.
Failed(st) == [ok |-> FALSE, storage |-> st]

Done(st) == [ok |-> TRUE, storage |-> st]

try_start_game(st, sender, opponent, start_move) ==
    IF ~addr_validate(opponent) THEN Failed(st)
    ELSE IF sender \in st.HOOKS THEN Failed(st)
    ELSE Done([st EXCEPT !.GAMES =
                 Save(st.GAMES, <<sender, opponent>>,
                      [host_move |-> start_move, opp_move |-> "NotPlayed",
                       result |-> "InProgress", opponent |-> opponent,
                       host |-> sender])])

\* The wins saved for a player after one more win.
OneMoreWin(board, player) ==
    Save(board, player, IF player \in DOMAIN board THEN board[player] + 1 ELSE 1)

try_respond_game(st, sender, host, opp_move) ==
    IF ~addr_validate(host) THEN Failed(st)
    ELSE IF <<host, sender>> \notin DOMAIN st.GAMES THEN Failed(st)
    ELSE LET match == st.GAMES[<<host, sender>>]
             end   == resolve_game(match.host_move, opp_move)
             board == IF end = "Win" THEN OneMoreWin(st.LEADERBOARD, host)
                      ELSE IF end = "Loss" THEN OneMoreWin(st.LEADERBOARD, sender)
                      ELSE st.LEADERBOARD
         IN  IF match.opponent # sender THEN Failed(st)
             ELSE Done([st EXCEPT !.LEADERBOARD = board,
                                  !.GAMES = Remove(st.GAMES, <<host, sender>>)])

\* Hooks::execute_add_hook: only the admin adds a hook, and only once.
execute_add_hook(st, sender, addr) ==
    IF sender # st.ADMIN \/ ~addr_validate(addr) \/ addr \in st.HOOKS THEN Failed(st)
    ELSE Done([st EXCEPT !.HOOKS = st.HOOKS \cup {addr}])

\* Ghost: the games concluded so far that each player won, by the rules of
\* the game and not by resolve_game.
NoneConcluded == [p \in Addresses |-> 0]

---------------------------------------------------------------------------
Start(positions) ==
    /\ game \in positions
    /\ op = [name |-> "new", from |-> <<8, 8>>, to |-> <<8, 8>>, moved |-> None,
             moves |-> <<>>, ret |-> None]
    /\ steps = 0
    /\ dstep = NoStep
    /\ storage = instantiate
    /\ concluded = NoneConcluded

Init == Start(Positions)

InitPlay == Start(PlayPositions)

\* The caller of section 6: it asks valid_moves(from) and applies with
\* move_pieces a returned sequence whose final destination is the proposed one.
PlayUpTo(bound) ==
    /\ steps < bound
    /\ \E from \in Origins :
         LET r == valid_moves(game, from)
         IN  /\ ~r.panic
             /\ \E i \in 1..Len(r.value) :
                  LET m == r.value[i]
                      a == move_pieces(game, m)
                  IN  /\ <<from, m[Len(m)][2]>> \in Proposals
                      /\ game' = a.game
                      /\ op' = [name |-> "move_pieces", from |-> from,
                                to |-> m[Len(m)][2],
                                moved |-> get_from_pos(game, from),
                                moves |-> m, ret |-> a.ret]
                      /\ dstep' = StepAfterAll(dstep, game, m, 1)
    /\ steps' = steps + 1
    /\ UNCHANGED <<storage, concluded>>

Play == PlayUpTo(MaxSteps)

LegalPly == PlayUpTo(MaxPlies)

MovePiece ==
    /\ steps < MaxSteps
    /\ \E rm \in RawMoves :
         LET a == move_piece(game, rm[1], rm[2])
         IN  /\ game' = a.game
             /\ op' = [name |-> "move_piece", from |-> rm[1], to |-> rm[2],
                       moved |-> IF OutOfBounds(rm[1], rm[2]) THEN None
                                 ELSE get_from_pos(game, rm[1]),
                       moves |-> <<rm>>, ret |-> a.ret]
             /\ dstep' = StepAfter(dstep, game, rm[1], rm[2])
    /\ steps' = steps + 1
    /\ UNCHANGED <<storage, concluded>>

SetAtPos ==
    /\ steps < MaxSteps
    /\ \E pl \in Placements :
         /\ game' = set_at_pos(game, pl[1], pl[2])
         /\ op' = [name |-> "set_at_pos", from |-> pl[1], to |-> pl[1],
                   moved |-> pl[2], moves |-> <<>>, ret |-> None]
         /\ dstep' = IF dstep.sq = pl[1] THEN NoStep ELSE dstep
    /\ steps' = steps + 1
    /\ UNCHANGED <<storage, concluded>>

Clear ==
    /\ steps < MaxSteps
    /\ game' = clear(game)
    /\ op' = [name |-> "clear", from |-> <<8, 8>>, to |-> <<8, 8>>, moved |-> None,
              moves |-> <<>>, ret |-> None]
    /\ dstep' = NoStep
    /\ steps' = steps + 1
    /\ UNCHANGED <<storage, concluded>>

Next == Play \/ MovePiece \/ SetAtPos \/ Clear

Spec == Init /\ [][Next]_vars

\* Legal play only: every step applies a sequence returned by valid_moves.
SpecPlay == InitPlay /\ [][LegalPly]_vars

\* The halfmove clock up to which the caller goes on moving.
MaxClock == 76

\* The number of snapshots up to which the caller goes on playing plies.
MaxSnapshots == 10

\* The moves of a caller that shuttles the rook, mates or stalemates.
ShuffleMoves ==
    { <<<<3, 7>>, <<4, 7>>>>, <<<<4, 7>>, <<3, 7>>>>, <<<<3, 7>>, <<0, 7>>>>,
      <<<<1, 7>>, <<1, 2>>>> }

\* The plies of a caller that repeats positions.
PlyMoves == { <<<<3, 7>>, <<4, 7>>>>, <<<<4, 7>>, <<3, 7>>>> }

InitDraw == Start({DrawBoard})

\* move_piece called directly on a piece, before any ply is recorded: the
\* clock runs while the history stays as it is.
Shuffle ==
    /\ op.name # "move_pieces"
    /\ game.seventy_five_move_rule < MaxClock
    /\ \E rm \in ShuffleMoves :
         LET a == move_piece(game, rm[1], rm[2])
         IN  /\ get_from_pos(game, rm[1]) # None
             /\ game' = a.game
             /\ op' = [name |-> "move_piece", from |-> rm[1], to |-> rm[2],
                       moved |-> get_from_pos(game, rm[1]),
                       moves |-> <<rm>>, ret |-> a.ret]
             /\ dstep' = StepAfter(dstep, game, rm[1], rm[2])
    /\ UNCHANGED steps
    /\ UNCHANGED <<storage, concluded>>

\* move_pieces called with a one-move ply that shuttles the rook.
Repeat ==
    /\ Len(game.board_history) < MaxSnapshots
    /\ \E rm \in PlyMoves :
         LET a == move_pieces(game, <<rm>>)
         IN  /\ get_from_pos(game, rm[1]) # None
             /\ game' = a.game
             /\ op' = [name |-> "move_pieces", from |-> rm[1], to |-> rm[2],
                       moved |-> get_from_pos(game, rm[1]),
                       moves |-> <<rm>>, ret |-> a.ret]
             /\ dstep' = StepAfterAll(dstep, game, <<rm>>, 1)
    /\ UNCHANGED steps
    /\ UNCHANGED <<storage, concluded>>

NextDraw == Shuffle \/ Repeat

\* Long games: the clock and the history reach the thresholds of the draws.
SpecDraw == InitDraw /\ [][NextDraw]_vars

\* The number of move_pieces calls made on a new game.
MaxCalls == 3

\* The sequences move_pieces is called with, legal or not: the two examples
\* of its documentation, captures, promotions, a knight move, a sequence
\* whose second sub-move is out of bounds, and the empty sequence.
RawSequences ==
    { << <<<<4, 1>>, <<4, 2>>>>, <<<<4, 2>>, <<4, 3>>>> >>,
      << <<<<4, 3>>, <<3, 7>>>>, <<<<3, 7>>, <<7, 7>>>> >>,
      << <<<<4, 1>>, <<4, 6>>>> >>,
      << <<<<4, 6>>, <<4, 7>>>> >>,
      << <<<<3, 6>>, <<3, 0>>>> >>,
      << <<<<1, 0>>, <<2, 2>>>> >>,
      << <<<<4, 1>>, <<4, 3>>>>, <<<<8, 0>>, <<0, 0>>>> >>,
      << <<<<3, 6>>, <<3, 5>>>>, <<<<3, 5>>, <<3, 8>>>> >>,
      << >> }

InitNew == Start({new})

MovePieces ==
    /\ steps < MaxCalls
    /\ \E m \in RawSequences :
         LET a == move_pieces(game, m)
         IN  /\ game' = a.game
             /\ op' = [name |-> "move_pieces", from |-> <<8, 8>>, to |-> <<8, 8>>,
                       moved |-> None, moves |-> m, ret |-> a.ret]
             /\ dstep' = IF \E k \in 1..Len(m) : OutOfBounds(m[k][1], m[k][2])
                         THEN dstep ELSE StepAfterAll(dstep, game, m, 1)
    /\ steps' = steps + 1
    /\ UNCHANGED <<storage, concluded>>

\* A new game on which only move_pieces is called.
SpecPlies == InitNew /\ [][MovePieces]_vars

\* The standard start without the white king.
NoWhiteKing == set_at_pos(new, <<4, 0>>, None)

\* The standard start without kings.
NoKings == set_at_pos(NoWhiteKing, <<4, 7>>, None)

\* The example of ignore_kings: a lone white bishop on d4.
LoneBishop == Setup(<< <<<<3, 3>>, WB>> >>)

KinglessPositions == {NoWhiteKing, NoKings, LoneBishop}

InitKingless == Start(KinglessPositions)

IgnoreKings ==
    /\ \E ignore \in BOOLEAN :
         /\ game' = ignore_kings(game, ignore)
         /\ op' = [name |-> "ignore_kings", from |-> <<8, 8>>, to |-> <<8, 8>>,
                   moved |-> None, moves |-> <<>>, ret |-> ignore]
    /\ UNCHANGED <<steps, dstep>>
    /\ UNCHANGED <<storage, concluded>>

IgnoreCheck ==
    /\ \E ignore \in BOOLEAN :
         /\ game' = ignore_check(game, ignore)
         /\ op' = [name |-> "ignore_check", from |-> <<8, 8>>, to |-> <<8, 8>>,
                   moved |-> None, moves |-> <<>>, ret |-> ignore]
    /\ UNCHANGED <<steps, dstep>>
    /\ UNCHANGED <<storage, concluded>>

NextKingless == IgnoreKings \/ IgnoreCheck \/ MovePiece

\* Boards that lack a king, the two permissive flags set and reset, and
\* pieces moved with move_piece.
SpecKingless == InitKingless /\ [][NextKingless]_vars

\* The number of texts entered in notation in one behaviour.
MaxNotations == 2

\* The texts a player enters: moves of the opening in algebraic notation,
\* and texts that name no legal move or are malformed.
Texts ==
    { <<"e", "4">>, <<"N", "c", "3">>, <<"N", "f", "3">>, <<"N", "a", "3">>,
      <<"N", "h", "3">>, <<"N", "f", "6">>, <<"N", "c", "6">>, <<"N", "a", "6">>,
      <<"N", "h", "6">>, <<"N", "b", "1">>, <<"N", "x", "e", "4">>,
      <<"N", "b", "c", "3">>, <<"0", "-", "0">>, <<"e", "9">>, <<"Q">>,
      <<"d", "4">>, <<"e", "5">> }

\* The colour whose move is entered: White begins.
ToMove == IF steps % 2 = 0 THEN "White" ELSE "Black"

\* A text is read with an_to_move for the colour to move; the move it names,
\* if any, is applied with move_pieces.
AnToMove ==
    /\ steps < MaxNotations
    /\ \E s \in Texts :
         \E r \in {an_to_move(game, s, ToMove)} :
             /\ ~r.panic
             /\ game' = IF r.value.some THEN move_pieces(game, r.value.m).game ELSE game
             /\ op' = [name |-> "an_to_move", from |-> <<8, 8>>, to |-> <<8, 8>>,
                       moved |-> None, moves |-> r.value.m, ret |-> s]
             /\ dstep' = StepAfterAll(dstep, game, r.value.m, 1)
    /\ steps' = steps + 1
    /\ UNCHANGED <<storage, concluded>>

\* A game played from the standard start by moves entered in notation.
SpecNotation == InitNew /\ [][AnToMove]_vars

\* The position of the example of an_to_move: Nc3, d5, e4, dxe4, Nf3 and Ng5
\* played from the start, the knights on c3 and g5 both reaching e4.
TwoKnights ==
    LET g1 == move_pieces(new, <<<<<<1, 0>>, <<2, 2>>>>>>).game
        g2 == move_pieces(g1, <<<<<<3, 6>>, <<3, 4>>>>>>).game
        g3 == move_pieces(g2, <<<<<<4, 1>>, <<4, 3>>>>>>).game
        g4 == move_pieces(g3, <<<<<<3, 4>>, <<4, 3>>>>>>).game
        g5 == move_pieces(g4, <<<<<<6, 0>>, <<5, 2>>>>>>).game
    IN  move_pieces(g5, <<<<<<5, 2>>, <<6, 4>>>>>>).game

\* The number of texts entered from the position of the example.
MaxHints == 2

\* Knight and pawn moves written with and without hints of the origin, for
\* both colours, among them texts that match two moves or none.
HintTexts ==
    { <<"N", "e", "4">>, <<"N", "c", "e", "4">>, <<"N", "3", "e", "4">>,
      <<"N", "c", "3", "e", "4">>, <<"N", "g", "e", "4">>, <<"N", "5", "e", "4">>,
      <<"N", "x", "e", "4">>, <<"N", "d", "5">>, <<"N", "h", "e", "4">>,
      <<"N", "f", "6">>, <<"N", "d", "7">>, <<"N", "b", "d", "7">>,
      <<"e", "3">>, <<"e", "x", "f", "3">>, <<"N", "b", "5">>,
      <<"N", "x", "h", "7">>, <<"N", "f", "3">>, <<"N", "h", "3">>,
      <<"N", "c", "6">>, <<"h", "6">>, <<"a", "3">>, <<"Q", "d", "4">>,
      <<"Q", "g", "4">> }

InitHints == Start({TwoKnights})

\* A text is read with an_to_move from the position of the example on.
ReadHint ==
    /\ steps < MaxHints
    /\ \E s \in HintTexts :
         \E r \in {an_to_move(game, s, ToMove)} :
             /\ ~r.panic
             /\ game' = IF r.value.some THEN move_pieces(game, r.value.m).game ELSE game
             /\ op' = [name |-> "an_to_move", from |-> <<8, 8>>, to |-> <<8, 8>>,
                       moved |-> None, moves |-> r.value.m, ret |-> s]
             /\ dstep' = StepAfterAll(dstep, game, r.value.m, 1)
    /\ steps' = steps + 1
    /\ UNCHANGED <<storage, concluded>>

\* A game continued from the position of the example by texts with hints.
SpecHints == InitHints /\ [][ReadHint]_vars

\* Boards set up with set_at_pos on which pieces are moved with move_piece
\* without regard to the rules: a king two squares from the rank of an
\* opposing pawn, a king in front of a pawn, a rook behind a blocked line.
KingBesidePawn ==
    Setup(<< <<<<6, 0>>, WK>>, <<<<4, 4>>, WP>>, <<<<3, 6>>, BK>> >>)

KingBeforePawn ==
    Setup(<< <<<<4, 0>>, WK>>, <<<<3, 5>>, WP>>, <<<<3, 6>>, BK>> >>)

RookBehindPawn ==
    Setup(<< <<<<4, 0>>, WK>>, <<<<0, 0>>, WR>>, <<<<0, 1>>, WP>>, <<<<0, 6>>, BK>>,
             <<<<3, 6>>, BN>> >>)

\* Rooks away from their corners, on the files a and h and elsewhere.
RooksAstray ==
    Setup(<< <<<<4, 0>>, WK>>, <<<<0, 3>>, WR>>, <<<<3, 3>>, WR>>, <<<<4, 7>>, BK>>,
             <<<<7, 4>>, BR>>, <<<<0, 7>>, BR>>, <<<<3, 6>>, BP>> >>)

AttackPositions ==
    {KingBesidePawn, KingBeforePawn, RookBehindPawn, RooksAstray, PassantReady}

InitAttack == Start(AttackPositions)

NextAttack == MovePiece \/ SetAtPos

\* Pieces moved and placed at will on the boards set up above.
SpecAttack == InitAttack /\ [][NextAttack]_vars

\* Boards on which a move mates, stalemates or gives check.
SuffixPositions == {StalematePos, MateInOne, StalemateInOne, StaleAndMate, DoubleMate}

InitSuffix == Start(SuffixPositions)

NextSuffix == Play \/ MovePiece \/ SetAtPos

\* Short games on these boards, by legal moves and by pieces moved and placed
\* at will.
SpecSuffix == InitSuffix /\ [][NextSuffix]_vars

\* The number of messages executed by the contract in one behaviour.
MaxMessages == 4

\* The rules of rock, paper, scissors.
Beats(a, b) ==
    <<a, b>> \in {<<"Rock", "Scissors">>, <<"Scissors", "Paper">>, <<"Paper", "Rock">>}

\* ExecuteMsg::StartGame sent by a player.
StartGame ==
    /\ steps < MaxMessages
    /\ \E sender \in Addresses, opponent \in Addresses \cup {BadAddress},
          start_move \in GameMoves :
         LET r == try_start_game(storage, sender, opponent, start_move)
         IN  /\ storage' = r.storage
             /\ op' = [name |-> "StartGame", sender |-> sender, host |-> sender,
                       opponent |-> opponent, move |-> start_move,
                       host_move |-> start_move, ok |-> r.ok]
    /\ steps' = steps + 1
    /\ UNCHANGED <<game, dstep, concluded>>

\* ExecuteMsg::Respond sent by a player; the ghost counts the game for the
\* player whose move beats the other.
Respond ==
    /\ steps < MaxMessages
    /\ \E sender \in Addresses, host \in Addresses \cup {BadAddress},
          opp_move \in GameMoves :
         LET r == try_respond_game(storage, sender, host, opp_move)
             host_move == IF <<host, sender>> \in DOMAIN storage.GAMES
                          THEN storage.GAMES[<<host, sender>>].host_move
                          ELSE "NotPlayed"
         IN  /\ storage' = r.storage
             /\ op' = [name |-> "Respond", sender |-> sender, host |-> host,
                       opponent |-> sender, move |-> opp_move,
                       host_move |-> host_move, ok |-> r.ok]
             /\ concluded' =
                  IF ~r.ok THEN concluded
                  ELSE IF Beats(host_move, opp_move)
                  THEN [concluded EXCEPT ![host] = @ + 1]
                  ELSE IF Beats(opp_move, host_move)
                  THEN [concluded EXCEPT ![sender] = @ + 1]
                  ELSE concluded
    /\ steps' = steps + 1
    /\ UNCHANGED <<game, dstep>>

\* ExecuteMsg::AddHook: the admin, or a player, asks to blacklist a host.
AddHook ==
    /\ steps < MaxMessages
    /\ \E sender \in {INIT_ADMIN, "mario"}, addr \in {"mario"} :
         LET r == execute_add_hook(storage, sender, addr)
         IN  /\ storage' = r.storage
             /\ op' = [name |-> "AddHook", sender |-> sender, host |-> addr,
                       opponent |-> addr, move |-> "NotPlayed",
                       host_move |-> "NotPlayed", ok |-> r.ok]
    /\ steps' = steps + 1
    /\ UNCHANGED <<game, dstep, concluded>>

NextContract == StartGame \/ Respond \/ AddHook

\* The contract after instantiate, executing messages.
SpecContract == InitNew /\ [][NextContract]_vars

\* The number of plies of a game played from the standard start.
MaxGame == 5

\* The (origin, destination) pairs the two players propose in a game from
\* the standard start: openings in which checks are given early (Qh5+ after
\* ...f5, Qh4+ after f3 and g4, Bxf7+), with the captures of a king on its
\* home square or beside it.
GameProposals ==
    { <<<<4, 1>>, <<4, 3>>>>, <<<<5, 1>>, <<5, 2>>>>, <<<<6, 1>>, <<6, 3>>>>,
      <<<<3, 0>>, <<7, 4>>>>, <<<<5, 0>>, <<2, 3>>>>, <<<<7, 4>>, <<5, 6>>>>,
      <<<<7, 4>>, <<4, 7>>>>, <<<<7, 4>>, <<4, 4>>>>, <<<<2, 3>>, <<5, 6>>>>,
      <<<<4, 0>>, <<4, 1>>>>, <<<<4, 0>>, <<5, 1>>>>,
      <<<<4, 6>>, <<4, 4>>>>, <<<<5, 6>>, <<5, 4>>>>, <<<<6, 6>>, <<6, 5>>>>,
      <<<<3, 7>>, <<7, 3>>>>, <<<<7, 3>>, <<4, 0>>>>, <<<<7, 3>>, <<5, 1>>>>,
      <<<<4, 7>>, <<4, 6>>>>, <<<<4, 7>>, <<5, 6>>>>, <<<<1, 7>>, <<2, 5>>>>,
      <<<<7, 3>>, <<4, 3>>>> }

\* A game from the standard start: the side to move asks valid_moves for one
\* of its pieces and applies a returned sequence with move_pieces.
PlayGame ==
    /\ steps < MaxGame
    /\ \E pr \in GameProposals :
         /\ get_from_pos(game, pr[1]).color = ToMove
         /\ LET r == valid_moves(game, pr[1])
            IN  /\ ~r.panic
                /\ \E i \in 1..Len(r.value) :
                     LET m == r.value[i]
                         a == move_pieces(game, m)
                     IN  /\ m[Len(m)][2] = pr[2]
                         /\ game' = a.game
                         /\ op' = [name |-> "move_pieces", from |-> pr[1], to |-> pr[2],
                                   moved |-> get_from_pos(game, pr[1]),
                                   moves |-> m, ret |-> a.ret]
                         /\ dstep' = StepAfterAll(dstep, game, m, 1)
    /\ steps' = steps + 1
    /\ UNCHANGED <<storage, concluded>>

SpecGame == InitNew /\ [][PlayGame]_vars

\* White ready to castle on both wings, its king in check from the rook on e8.
CastleInCheck ==
    Setup(<< <<<<4, 0>>, WK>>, <<<<0, 0>>, WR>>, <<<<7, 0>>, WR>>,
             <<<<4, 7>>, BR>>, <<<<6, 6>>, BK>> >>)

\* White rooks on h1 and g1 and a black bishop on d5 that can take the rook
\* on h1, where the rook on g1 can take it back.
CastleReplaced ==
    Setup(<< <<<<4, 0>>, WK>>, <<<<7, 0>>, WR>>, <<<<6, 0>>, WR>>,
             <<<<3, 4>>, BB>>, <<<<1, 6>>, BK>> >>)

\* The same on the other wing for Black: rooks on a8 and b8, a white bishop
\* on e4.
CastleReplacedBlack ==
    Setup(<< <<<<4, 7>>, BK>>, <<<<0, 7>>, BR>>, <<<<1, 7>>, BR>>,
             <<<<4, 3>>, WB>>, <<<<6, 1>>, WK>> >>)

CastlePositions == {CastleInCheck, CastleReplaced, CastleReplacedBlack}

\* The (origin, destination) pairs proposed on these boards.
CastleProposals ==
    { <<<<4, 0>>, <<6, 0>>>>, <<<<4, 0>>, <<2, 0>>>>, <<<<4, 0>>, <<5, 0>>>>,
      <<<<4, 0>>, <<3, 1>>>>, <<<<3, 4>>, <<7, 0>>>>, <<<<6, 0>>, <<7, 0>>>>,
      <<<<7, 0>>, <<7, 2>>>>, <<<<3, 4>>, <<4, 5>>>>,
      <<<<4, 7>>, <<3, 7>>>>, <<<<4, 7>>, <<4, 0>>>>, <<<<6, 6>>, <<6, 7>>>>,
      <<<<1, 6>>, <<1, 7>>>>,
      <<<<4, 7>>, <<2, 7>>>>, <<<<4, 7>>, <<6, 7>>>>, <<<<4, 3>>, <<0, 7>>>>,
      <<<<1, 7>>, <<0, 7>>>>, <<<<6, 1>>, <<6, 0>>>> }

InitCastle == Start(CastlePositions)

\* A ply of either side on these boards: a sequence returned by valid_moves
\* that ends on the proposed square, applied with move_pieces.
PlayCastle ==
    /\ steps < MaxPlies
    /\ \E pr \in CastleProposals :
         LET r == valid_moves(game, pr[1])
         IN  /\ ~r.panic
             /\ \E i \in 1..Len(r.value) :
                  LET m == r.value[i]
                      a == move_pieces(game, m)
                  IN  /\ m[Len(m)][2] = pr[2]
                      /\ game' = a.game
                      /\ op' = [name |-> "move_pieces", from |-> pr[1], to |-> pr[2],
                                moved |-> get_from_pos(game, pr[1]),
                                moves |-> m, ret |-> a.ret]
                      /\ dstep' = StepAfterAll(dstep, game, m, 1)
    /\ steps' = steps + 1
    /\ UNCHANGED <<storage, concluded>>

\* Legal play around castling.
SpecCastle == InitCastle /\ [][PlayCastle]_vars

---------------------------------------------------------------------------
(* Vocabulary of the properties: the rules of chess, stated independently  *)
(* of the move generator.                                                  *)

Squares == {<<x, y>> : x \in 0..7, y \in 0..7}

Occupied(g) == {sq \in Squares : get_from_pos(g, sq) # None}

OneKingEach(g) == \A c \in Colors : Len(by_kind_and_color(g, "King", c)) = 1

Abs(n) == IF n < 0 THEN -n ELSE n

Sign(n) == IF n < 0 THEN -1 ELSE IF n > 0 THEN 1 ELSE 0

\* The squares strictly between from and to on a common line are empty.
ClearLine(g, from, to) ==
    LET dx == Sign(to[1] - from[1])
        dy == Sign(to[2] - from[2])
        n  == IF Abs(to[1] - from[1]) > Abs(to[2] - from[2])
              THEN Abs(to[1] - from[1]) ELSE Abs(to[2] - from[2])
    IN  \A k \in 1..(n - 1) : get_from_pos(g, <<from[1] + k * dx, from[2] + k * dy>>) = None

\* The piece on from attacks the square to under the standard rules.
Attacks(g, from, to) ==
    LET p  == get_from_pos(g, from)
        dx == to[1] - from[1]
        dy == to[2] - from[2]
        straight == (dx = 0 \/ dy = 0) /\ from # to /\ ClearLine(g, from, to)
        diagonal == Abs(dx) = Abs(dy) /\ from # to /\ ClearLine(g, from, to)
    IN  CASE p.kind = "Pawn"   -> Abs(dx) = 1 /\ dy = Forward(p.color)
          [] p.kind = "Knight" -> {Abs(dx), Abs(dy)} = {1, 2}
          [] p.kind = "King"   -> from # to /\ Abs(dx) <= 1 /\ Abs(dy) <= 1
          [] p.kind = "Rook"   -> straight
          [] p.kind = "Bishop" -> diagonal
          [] p.kind = "Queen"  -> straight \/ diagonal
          [] OTHER -> FALSE

\* Some piece of colour by attacks the square sq.
Attacked(g, sq, by) ==
    \E from \in Squares : get_from_pos(g, from).color = by /\ Attacks(g, from, sq)

\* A king of the colour stands on an attacked square.
KingAttacked(g, color) ==
    \E sq \in Squares :
        get_from_pos(g, sq) = PieceOf(color, "King") /\ Attacked(g, sq, Opposite(color))

\* The game after the sub-moves of m from the k-th on, applied with move_piece.
RECURSIVE Applied(_, _, _)
Applied(g, m, k) ==
    IF k > Len(m) THEN g
    ELSE Applied(move_piece(g, m[k][1], m[k][2]).game, m, k + 1)

\* A sub-move of m, from the k-th on, lands on a piece of the mover's colour.
RECURSIVE LandsOnOwn(_, _, _)
LandsOnOwn(g, m, k) ==
    IF k > Len(m) THEN FALSE
    ELSE \/ /\ get_from_pos(g, m[k][2]) # None
            /\ get_from_pos(g, m[k][2]).color = get_from_pos(g, m[k][1]).color
         \/ LandsOnOwn(move_piece(g, m[k][1], m[k][2]).game, m, k + 1)

Contains(seqs, m) == \E i \in 1..Len(seqs) : seqs[i] = m

---------------------------------------------------------------------------
(* Properties                                                              *)

\* C1: on a board with one king per colour and check enforcement on, every
\* sequence returned by valid_moves, applied sub-move by sub-move, leaves the
\* mover's king neither attacked nor in check, and no sub-move of it lands on
\* a piece of the mover's colour.
C1_LegalMovesAreSafe ==
    (OneKingEach(game) /\ ~game.ignore_check) =>
        \A pos \in Occupied(game) :
            LET r == valid_moves(game, pos)
                c == get_from_pos(game, pos).color
            IN  \A i \in 1..Len(r.value) :
                    LET after == Applied(game, r.value[i], 1)
                    IN  /\ ~LandsOnOwn(game, r.value[i], 1)
                        /\ ~KingAttacked(after, c)
                        /\ ~in_check(after, c).value

\* A piece has legal moves and also a candidate that is removed because it
\* would leave its own king attacked.
C1_Witness ==
    /\ OneKingEach(game)
    /\ \E pos \in Occupied(game) :
        LET raw == raw_moves(game, pos).value
            ok  == valid_moves(game, pos).value
        IN  /\ Len(ok) > 0
            /\ \E i \in 1..Len(raw) :
                 /\ ~Contains(ok, raw[i])
                 /\ ~LandsOnOwn(game, raw[i], 1)
                 /\ KingAttacked(Applied(game, raw[i], 1), get_from_pos(game, pos).color)

Flags == {"white_can_castle_left", "white_can_castle_right",
          "black_can_castle_left", "black_can_castle_right"}

HomeRank(color) == IF color = "White" THEN 0 ELSE 7

\* C2: a castling flag that is false is false after move_piece, move_pieces,
\* set_at_pos and clear; right after move_piece moved a king both flags of its
\* colour are false, and right after it moved a rook off its original corner
\* the flag of that wing is false.
C2_CastlingRightsNeverReturn ==
    [][ /\ \A f \in Flags : game'[f] => game[f]
        /\ (op'.name = "move_piece" /\ op'.moved.kind = "King") =>
               /\ ~CanCastle(game', op'.moved.color, -1)
               /\ ~CanCastle(game', op'.moved.color, 1)
        /\ \A dir \in {-1, 1} :
               ( /\ op'.name = "move_piece"
                 /\ op'.moved.kind = "Rook"
                 /\ op'.from = <<IF dir = -1 THEN 0 ELSE 7, HomeRank(op'.moved.color)>> )
               => ~CanCastle(game', op'.moved.color, dir)
      ]_vars

\* The white rook was moved off a1 and set_at_pos has put a rook back on a1
\* next to the king on e1: the queenside right is still gone.
C2_Witness ==
    /\ op.name = "set_at_pos"
    /\ op.moved = WR
    /\ get_from_pos(game, <<4, 0>>) = WK
    /\ get_from_pos(game, <<0, 0>>) = WR
    /\ ~game.white_can_castle_left
    /\ game.white_can_castle_right

Between(dir, y) ==
    IF dir = -1 THEN {<<1, y>>, <<2, y>>, <<3, y>>} ELSE {<<5, y>>, <<6, y>>}

\* The castling sequence of the king on rank y towards dir.
CastlingSequence(dir, y) ==
    << <<<<4, y>>, <<4 + dir, y>>>>, <<<<4 + dir, y>>, <<4 + 2 * dir, y>>>>,
       RookHop(<<4, y>>, dir) >>

CastlingReady(g, c) ==
    LET y == HomeRank(c)
    IN  /\ get_from_pos(g, <<4, y>>) = PieceOf(c, "King")
        /\ get_from_pos(g, <<0, y>>) = PieceOf(c, "Rook")
        /\ get_from_pos(g, <<7, y>>) = PieceOf(c, "Rook")
        /\ CanCastle(g, c, -1)
        /\ CanCastle(g, c, 1)
        /\ \A sq \in Between(-1, y) \cup Between(1, y) :
               get_from_pos(g, sq) = None /\ ~Attacked(g, sq, Opposite(c))
        /\ ~Attacked(g, <<4, y>>, Opposite(c))

\* C3: with the king on its home square, own rooks on both corners, both
\* flags set, every square between king and rooks empty and not attacked and
\* the king not in check, valid_moves of the king contains both three-sub-move
\* castling sequences.
C3_CastlingOffered ==
    \A c \in Colors :
        CastlingReady(game, c) =>
            LET r == valid_moves(game, <<4, HomeRank(c)>>)
            IN  /\ ~r.panic
                /\ Contains(r.value, CastlingSequence(-1, HomeRank(c)))
                /\ Contains(r.value, CastlingSequence(1, HomeRank(c)))

\* The other side has just moved and the castling conditions hold.
C3_Witness ==
    /\ op.name = "move_pieces"
    /\ \E c \in Colors : CastlingReady(game, c) /\ op.moved.color = Opposite(c)

\* C4: when a square between the king on its home square and a rook is
\* occupied, by a piece of either colour, or attacked by the opponent,
\* valid_moves of the king does not contain the castling sequence towards
\* that rook.
C4_NoCastlingThroughPieces ==
    \A c \in Colors : \A dir \in {-1, 1} :
        ( /\ get_from_pos(game, <<4, HomeRank(c)>>) = PieceOf(c, "King")
          /\ \E sq \in Between(dir, HomeRank(c)) :
                 get_from_pos(game, sq) # None \/ Attacked(game, sq, Opposite(c)) )
        => ~Contains(valid_moves(game, <<4, HomeRank(c)>>).value,
                     CastlingSequence(dir, HomeRank(c)))

Neighbours(sq) == {<<nx, sq[2]>> : nx \in {sq[1] - 1, sq[1] + 1} \cap 0..7}

\* C5: immediately after a pawn has double-stepped next to an opposing pawn,
\* valid_moves of that pawn contains the two-sub-move en-passant sequence
\* ending on the square passed over, provided that applying the whole
\* sequence does not leave the capturing side's king in check.
C5_EnPassantOffered ==
    (dstep # NoStep /\ dstep.age = 0) =>
        \A n \in Neighbours(dstep.sq) :
            LET p   == get_from_pos(game, n)
                m   == PassantSequence(n, p, dstep.sq[1])
            IN  ( /\ p = PieceOf(Opposite(get_from_pos(game, dstep.sq).color), "Pawn")
                  /\ ~KingAttacked(Applied(game, m, 1), p.color)
                  /\ ~in_check(Applied(game, m, 1), p.color).value )
                => Contains(valid_moves(game, n).value, m)

\* C6: once a further move has been applied after a double-step, in that
\* state and in every later one, neither the candidates nor the legal moves
\* of a neighbouring piece contain a two-sub-move sequence that captures the
\* pawn that double-stepped.
C6_EnPassantExpires ==
    (dstep # NoStep /\ dstep.age >= 1) =>
        \A n \in Neighbours(dstep.sq) :
            \A moves \in {raw_moves(game, n).value, valid_moves(game, n).value} :
                \A i \in 1..Len(moves) :
                    ~(Len(moves[i]) = 2 /\ moves[i][1][2] = dstep.sq)

\* A pawn double-stepped next to an opposing pawn, another move was applied,
\* and both pawns still stand side by side.
C6_Witness ==
    /\ dstep # NoStep
    /\ dstep.age >= 1
    /\ get_from_pos(game, dstep.sq).kind = "Pawn"
    /\ \E n \in Neighbours(dstep.sq) :
          /\ get_from_pos(game, n)
                = PieceOf(Opposite(get_from_pos(game, dstep.sq).color), "Pawn")
          /\ Len(valid_moves(game, n).value) > 0

\* C7: the generator produces the en-passant candidate of a pawn towards a
\* neighbouring file exactly when the adjacent square holds an opposing pawn,
\* the pawn stands on its en-passant rank and the last recorded move is the
\* move two squares forward onto that adjacent square.
C7_EnPassantExactly ==
    \A pos \in Occupied(game) :
        LET p == get_from_pos(game, pos)
        IN  p.kind = "Pawn" =>
            \A n \in Neighbours(pos) :
                Contains(raw_moves(game, pos).value, PassantSequence(pos, p, n[1]))
                <=> ( /\ get_from_pos(game, n) = PieceOf(Opposite(p.color), "Pawn")
                      /\ pos[2] = PassantRank(p.color)
                      /\ game.last = << <<n[1], n[2] + 2 * Forward(p.color)>>, n >> )

RECURSIVE CountMoves(_, _, _)
CountMoves(g, pieces, k) ==
    IF k > Len(pieces) THEN 0
    ELSE Len(valid_moves(g, pieces[k]).value) + CountMoves(g, pieces, k + 1)

\* C8: in the position of Game::new() the valid_moves of the white pieces
\* number 20 in total, and valid_moves((4, 1)) is exactly the single-sub-move
\* sequences to (4, 3) and to (4, 2).
C8_OpeningMoves ==
    game = new =>
        /\ CountMoves(game, by_color(game, "White"), 1) = 20
        /\ valid_moves(game, <<4, 1>>)
             = NoPanic(<< << <<<<4, 1>>, <<4, 3>>>> >>, << <<<<4, 1>>, <<4, 2>>>> >> >>)

\* The game as Game::new() returns it, before any operation.
C8_Witness == game = new /\ op.name = "new" /\ steps = 0

NoDraw(g) == ~DrawByClock(g) /\ ~DrawByRepetition(g)

Stuck(g, color) == has_moves(g, by_color(g, color), 1) = "no"

Mated(g, color) == Stuck(g, color) /\ in_check(g, color).value

\* check_victory returns Checkmate only against a colour that is in check
\* and has no legal move.
CheckmateOnlyWhenMated(g) ==
    \A c \in Colors :
        check_victory(g).value = Victory("Checkmate", Opposite(c)) => Mated(g, c)

\* check_victory returns Stalemate only against a colour that is not in
\* check and did not move last.
StalemateOnlyWhenDue(g) ==
    \A c \in Colors :
        check_victory(g).value = Victory("Stalemate", Opposite(c)) =>
            ~in_check(g, c).value /\ g.last_color # c

\* C9 as stated: when no draw rule fires and a colour has no legal move while
\* its king is in check, check_victory returns (Checkmate, the other colour);
\* and it returns Checkmate only against a colour in check without legal move.
C9_CheckmateAsStated ==
    NoDraw(game) =>
        /\ \A c \in Colors :
               Mated(game, c) =>
                   check_victory(game) = NoPanic(Victory("Checkmate", Opposite(c)))
        /\ CheckmateOnlyWhenMated(game)

\* C9 amended: when no draw rule fires, a Black without legal move and in
\* check gives (Checkmate, White); a White without legal move and in check
\* gives (Checkmate, Black) provided Black, examined first, has a legal move
\* or is not in check and moved last; and Checkmate is returned only against
\* a colour in check without legal move.
C9_Checkmate ==
    NoDraw(game) =>
        /\ Mated(game, "Black") =>
               check_victory(game) = NoPanic(Victory("Checkmate", "White"))
        /\ ( /\ Mated(game, "White")
             /\ \/ ~Stuck(game, "Black")
                \/ ~in_check(game, "Black").value /\ game.last_color = "Black" )
           => check_victory(game) = NoPanic(Victory("Checkmate", "Black"))
        /\ CheckmateOnlyWhenMated(game)

\* Black has just moved, White is in check without legal move, and the
\* verdict is checkmate for Black.
C9_Witness ==
    /\ op.name = "move_pieces"
    /\ op.moved.color = "Black"
    /\ NoDraw(game)
    /\ Mated(game, "White")
    /\ check_victory(game) = NoPanic(Victory("Checkmate", "Black"))

\* C10 as stated: when no draw rule fires and a colour has no legal move, is
\* not in check, and the other colour moved last, check_victory returns
\* (Stalemate, the other colour); and it returns Stalemate only against a
\* colour that is not in check and did not move last.
C10_StalemateAsStated ==
    NoDraw(game) =>
        /\ \A c \in Colors :
               ( /\ Stuck(game, c)
                 /\ ~in_check(game, c).value
                 /\ game.last_color = Opposite(c) )
               => check_victory(game) = NoPanic(Victory("Stalemate", Opposite(c)))
        /\ StalemateOnlyWhenDue(game)

\* C10 amended: as stated for Black; for White provided Black, examined
\* first, is not itself in check without legal move.
C10_Stalemate ==
    NoDraw(game) =>
        /\ \A c \in Colors :
               ( /\ Stuck(game, c)
                 /\ ~in_check(game, c).value
                 /\ game.last_color = Opposite(c)
                 /\ c = "White" => ~Mated(game, "Black") )
               => check_victory(game) = NoPanic(Victory("Stalemate", Opposite(c)))
        /\ StalemateOnlyWhenDue(game)

\* Black has just moved, White has no legal move and is not in check, and
\* the verdict is stalemate.
C10_Witness ==
    /\ op.name = "move_pieces"
    /\ op.moved.color = "Black"
    /\ NoDraw(game)
    /\ Stuck(game, "White")
    /\ ~in_check(game, "White").value
    /\ game.last_color = "Black"
    /\ check_victory(game) = NoPanic(Victory("Stalemate", "Black"))


\* The number of snapshots of the history that equal the latest one cell for
\* cell.
EqualToLatest(g) ==
    Cardinality({i \in 1..Len(g.board_history) :
        \A sq \in Squares :
            g.board_history[i][sq[1]][sq[2]]
                = g.board_history[Len(g.board_history)][sq[1]][sq[2]]})

\* C11: check_victory returns Draw exactly when the halfmove clock is at
\* least 75 or the history holds at least 5 snapshots of which at least 5
\* equal the latest one; in particular not with the clock at 74 and at most
\* 4 equal snapshots, and also when a side is checkmated or stalemated.
C11_DrawExactlyAtThresholds ==
    /\ ~check_victory(game).panic
    /\ check_victory(game).value.status = "Draw"
         <=> \/ game.seventy_five_move_rule >= 75
             \/ Len(game.board_history) >= 5 /\ EqualToLatest(game) >= 5

\* The clock has just reached 75 by the move that mates White, and the
\* verdict is Draw.
C11_Witness ==
    /\ game.seventy_five_move_rule = 75
    /\ EqualToLatest(game) < 5
    /\ Mated(game, "White")
    /\ check_victory(game).value.status = "Draw"


\* C12: after plies applied with move_pieces, each a sequence returned by
\* valid_moves, the halfmove clock is the number of plies applied since the
\* last ply that captured a piece or moved a pawn: it starts at 0, a ply
\* that captures or moves a pawn sets it to 0 and any other ply adds 1.
C12_ClockCountsPlies ==
    [][ op'.name = "move_pieces" =>
            game'.seventy_five_move_rule
              = IF \/ op'.moved.kind = "Pawn"
                   \/ Cardinality(Occupied(game')) < Cardinality(Occupied(game))
                THEN 0
                ELSE game.seventy_five_move_rule + 1 ]_vars


Inside(sq) == sq[1] \in 0..7 /\ sq[2] \in 0..7

\* The squares move_piece and valid_moves are asked about: squares of the
\* board and positions with a coordinate outside it.
ArgSquares ==
    { <<4, 1>>, <<4, 3>>, <<4, 6>>, <<4, 7>>, <<3, 6>>, <<3, 0>>, <<2, 2>>,
      <<8, 0>>, <<0, 8>>, <<8, 8>> }

\* The game after the first k sub-moves of m.
AfterPrefix(g, m, k) == Applied(g, SubSeq(m, 1, k), 1)

\* The k-th sub-move of m captures: move_piece returns a piece for it.
Captures(g, m, k) == move_piece(AfterPrefix(g, m, k - 1), m[k][1], m[k][2]).ret # None

\* The history after move_pieces(m) in game g according to C13: a snapshot
\* after every sub-move, and nothing from before the last capturing sub-move.
ExpectedHistory(g, m) ==
    LET taken == [k \in 1..Len(m) |-> AfterPrefix(g, m, k).board]
        caps  == {k \in 1..Len(m) : Captures(g, m, k)}
        j     == CHOOSE k \in caps : \A l \in caps : l <= k
    IN  IF caps = {} THEN g.board_history \o taken
        ELSE SubSeq(taken, j, Len(m))

\* C13: after any sequence of move_pieces calls on a new game the last
\* history entry is the current board, and a call leaves in the history the
\* snapshots taken after each of its sub-moves, without any snapshot taken
\* before its last capturing sub-move (one entry right after a single-move
\* capturing ply).
C13_HistoryFollowsBoard ==
    /\ [](/\ Len(game.board_history) > 0
          /\ game.board_history[Len(game.board_history)] = game.board)
    /\ [][ (op'.name = "move_pieces"
            /\ \A k \in 1..Len(op'.moves) : Inside(op'.moves[k][1]) /\ Inside(op'.moves[k][2]))
           => game'.board_history = ExpectedHistory(game, op'.moves) ]_vars

\* A single-move capturing ply has just been applied on a game that had
\* snapshots before it: the history has one entry.
C13_Witness ==
    /\ steps >= 2
    /\ op.name = "move_pieces"
    /\ Len(op.moves) = 1
    /\ op.ret # None
    /\ Len(game.board_history) = 1

\* C14: when a sub-move of the sequence passed to move_pieces has a
\* coordinate outside [0,7], move_pieces returns None and leaves the whole
\* game unchanged, also when earlier sub-moves are in bounds and movable.
C14_OutOfBoundsRejected ==
    [][ (op'.name = "move_pieces"
         /\ \E k \in 1..Len(op'.moves) : ~Inside(op'.moves[k][1]) \/ ~Inside(op'.moves[k][2]))
        => game' = game /\ op'.ret = None ]_vars

\* move_pieces has been called with a sequence whose first sub-move is in
\* bounds and movable and whose second sub-move is out of bounds.
C14_Witness ==
    /\ op.name = "move_pieces"
    /\ Len(op.moves) = 2
    /\ Inside(op.moves[1][1]) /\ Inside(op.moves[1][2])
    /\ get_from_pos(game, op.moves[1][1]) # None
    /\ ~Inside(op.moves[2][1]) \/ ~Inside(op.moves[2][2])
    /\ op.ret = None

\* C15: move_piece(from, to) returns None and changes nothing when from is
\* empty or a coordinate of from or to is outside [0,7]; otherwise it returns
\* the piece that stood on to (None if it was empty).
C15_MovePieceResult ==
    \A from \in ArgSquares : \A to \in ArgSquares :
        LET a == move_piece(game, from, to)
        IN  IF ~Inside(from) \/ ~Inside(to) THEN a = [game |-> game, ret |-> None]
            ELSE IF game.board[from[1]][from[2]] = None
            THEN a = [game |-> game, ret |-> None]
            ELSE a.ret = game.board[to[1]][to[2]]

\* Some asked square has been emptied and another holds a piece that can
\* capture: all cases of move_piece occur in the state.
C15_Witness ==
    /\ op.name = "move_pieces"
    /\ get_from_pos(game, <<4, 1>>) = None
    /\ move_piece(game, <<4, 1>>, <<4, 3>>) = [game |-> game, ret |-> None]
    /\ move_piece(game, <<4, 3>>, <<4, 6>>).ret = BP

\* C16: valid_moves(pos) with a coordinate of pos outside [0,7] returns an
\* empty list and does not abort.
C16_ValidMovesOutOfBounds ==
    \A pos \in ArgSquares : ~Inside(pos) => valid_moves(game, pos) = NoPanic(<<>>)


\* Every candidate of the piece on pos leaves the king of its colour attacked.
AllCandidatesUnsafe(g, pos) ==
    LET raw == raw_moves(g, pos).value
    IN  \A i \in 1..Len(raw) :
            KingAttacked(Applied(g, raw[i], 1), get_from_pos(g, pos).color)

\* C17: on a board with exactly one king of each colour valid_moves
\* completes without abort for every square of the board; it returns the
\* empty list for an empty square and for a piece all of whose candidates
\* leave the king of its colour in check.
C17_ValidMovesTotal ==
    (OneKingEach(game) /\ ~game.ignore_check) =>
        \A sq \in Squares :
            LET r == valid_moves(game, sq)
            IN  /\ ~r.panic
                /\ get_from_pos(game, sq) = None => r.value = <<>>
                /\ (get_from_pos(game, sq) # None /\ AllCandidatesUnsafe(game, sq))
                      => r.value = <<>>

\* A piece has a candidate onto a square its colour does not hold, all its
\* candidates leave its king attacked, and valid_moves returns nothing for it.
C17_Witness ==
    /\ OneKingEach(game)
    /\ \E sq \in Occupied(game) :
         LET raw == raw_moves(game, sq).value
         IN  /\ \E i \in 1..Len(raw) : ~LandsOnOwn(game, raw[i], 1)
             /\ AllCandidatesUnsafe(game, sq)
             /\ valid_moves(game, sq) = NoPanic(<<>>)


NoKing(g, color) == Len(by_kind_and_color(g, "King", color)) = 0

\* The first sub-move of a candidate of the piece on pos ends on a square
\* that does not hold a piece of its colour.
HasOpenCandidate(g, pos) ==
    LET raw == raw_moves(g, pos).value
    IN  \E i \in 1..Len(raw) :
            LET other == get_from_pos(g, raw[i][1][2])
            IN  other = None \/ other.color # get_from_pos(g, pos).color

\* C18 as stated: without a king of the colour, in_check returns false when
\* ignore_kings is on and aborts when it is off and check tests are not
\* disabled; valid_moves of a piece that has a candidate move then aborts.
C18_KinglessAsStated ==
    \A c \in Colors :
        NoKing(game, c) =>
            /\ game.ignore_kings => in_check(game, c) = [panic |-> FALSE, value |-> FALSE]
            /\ (~game.ignore_kings /\ ~game.ignore_check) =>
                  /\ in_check(game, c).panic
                  /\ \A sq \in Occupied(game) :
                        (get_from_pos(game, sq).color = c
                         /\ Len(raw_moves(game, sq).value) > 0)
                            => valid_moves(game, sq).panic

\* C18: without a king of the colour, in_check returns false when
\* ignore_kings or ignore_check is on and aborts when both are off;
\* valid_moves of a piece of that colour then aborts exactly when a candidate
\* of the piece starts with a sub-move that does not end on a piece of its
\* own colour, and returns the empty list otherwise; with one of the flags on
\* it does not abort.
C18_Kingless ==
    \A c \in Colors :
        NoKing(game, c) =>
            /\ (game.ignore_kings \/ game.ignore_check)
                  => in_check(game, c) = [panic |-> FALSE, value |-> FALSE]
            /\ (~game.ignore_kings /\ ~game.ignore_check) => in_check(game, c).panic
            /\ \A sq \in Occupied(game) :
                  get_from_pos(game, sq).color = c =>
                      LET r == valid_moves(game, sq)
                      IN  IF game.ignore_kings \/ game.ignore_check THEN ~r.panic
                          ELSE IF HasOpenCandidate(game, sq) THEN r.panic
                          ELSE r = NoPanic(<<>>)

\* With both flags off on a board without white king, one white piece with
\* candidates makes valid_moves abort and another, whose candidates all end
\* on white pieces, gets the empty list.
C18_Witness ==
    /\ NoKing(game, "White")
    /\ ~game.ignore_kings /\ ~game.ignore_check
    /\ op.name = "ignore_kings"
    /\ \E sq \in Occupied(game) :
         /\ get_from_pos(game, sq).color = "White"
         /\ valid_moves(game, sq).panic
    /\ \E sq \in Occupied(game) :
         /\ get_from_pos(game, sq).color = "White"
         /\ Len(raw_moves(game, sq).value) > 0
         /\ valid_moves(game, sq) = NoPanic(<<>>)


\* The piece move_piece is to leave on the destination according to C19.
Arriving(piece, to) ==
    IF piece.kind = "Pawn" /\ to[2] = (IF piece.color = "White" THEN 7 ELSE 0)
    THEN PieceOf(piece.color, "Queen")
    ELSE piece

\* C19: after move_piece has moved a white pawn to rank index 7 or a black
\* pawn to rank index 0 the destination holds a queen of the colour of the
\* pawn, and after every other successful move it holds the piece that stood
\* on the origin.
C19_DestinationHoldsMover ==
    \A from \in Occupied(game) : \A to \in Squares :
        get_from_pos(move_piece(game, from, to).game, to)
            = Arriving(get_from_pos(game, from), to)


\* C20: for every sequence m that valid_moves returns for a white piece in
\* the standard start position, an_to_move(move_to_an(m, false, false),
\* White) returns Some(m).
C20_OpeningRoundTrip ==
    game = new =>
        \A sq \in Occupied(game) :
            get_from_pos(game, sq).color = "White" =>
                LET r == valid_moves(game, sq)
                IN  \A i \in 1..Len(r.value) :
                        LET an == move_to_an(game, r.value[i], FALSE, FALSE)
                        IN  /\ ~an.panic
                            /\ an_to_move(game, an.value, "White")
                                  = NoPanic(SomeMove(r.value[i]))

\* The text "Nc3" has been read in the standard start position and the
\* knight move b1-c3 it names applied; move_to_an writes that move as "Nc3".
C20_Witness ==
    /\ steps = 1
    /\ op.name = "an_to_move"
    /\ op.ret = <<"N", "c", "3">>
    /\ op.moves = << <<<<1, 0>>, <<2, 2>>>> >>
    /\ get_from_pos(game, <<2, 2>>) = WN
    /\ move_to_an(new, op.moves, FALSE, FALSE) = NoPanic(op.ret)
    /\ CountMoves(new, by_color(new, "White"), 1) = 20

---------------------------------------------------------------------------
(* C21 *)

\* What an_to_move reads from a text that is not a castling text: the kind
\* of the piece, the hints of the origin and the destination.
Parsed(s) ==
    LET kind == KindOf(s[1])
        sq   == IF kind = "Pawn" THEN PawnSquares(s, Len(s)) ELSE PieceSquares(s, Len(s))
    IN  [ok |-> sq.ok, kind |-> kind, origin |-> sq.origin, target |-> sq.target]

\* The legal sequences of the colour that match a parsed text, each named by
\* the square of its piece, its place among the moves of the piece, and the
\* sequence itself.
Matching(g, color, q) ==
    UNION { LET vm == valid_moves(g, p).value
            IN  { <<p, i, vm[i]>> :
                  i \in { j \in 1..Len(vm) :
                          LET last == vm[j][Len(vm[j])][2]
                          IN  /\ Fits(q.target[1], last[1])
                              /\ Fits(q.target[2], last[2]) } } :
            p \in { sq \in Squares : /\ get_from_pos(g, sq) # None
                                     /\ get_from_pos(g, sq).kind = q.kind
                                     /\ get_from_pos(g, sq).color = color
                                     /\ Fits(q.origin[1], sq[1])
                                     /\ Fits(q.origin[2], sq[2]) } }

\* C21: an_to_move returns None when no legal sequence of the colour matches
\* the kind, origin hints and destination read from the text and when more
\* than one does, and returns the sequence when exactly one matches; with
\* knights on c3 and g5, "Ne4" gives None and "Nce4", "N3e4" and "Nc3e4" all
\* give the move of the knight on c3 to e4.
C21_UniqueMatchOnly ==
    /\ \A s \in HintTexts :
         LET q == Parsed(s)
             r == an_to_move(game, s, ToMove)
             M == Matching(game, ToMove, q)
         IN  q.ok =>
               /\ ~r.panic
               /\ Cardinality(M) # 1 => r.value = NoMove
               /\ Cardinality(M) = 1 =>
                    \A c \in M : r.value = SomeMove(c[3])
    /\ game = TwoKnights =>
         /\ an_to_move(game, <<"N", "e", "4">>, "White").value = NoMove
         /\ \A s \in { <<"N", "c", "e", "4">>, <<"N", "3", "e", "4">>,
                       <<"N", "c", "3", "e", "4">> } :
              an_to_move(game, s, "White").value = SomeMove(<< <<<<2, 2>>, <<4, 3>>>> >>)

\* "Ne4" was read and refused: the knights on c3 and g5 both reach e4, so the
\* text matches two sequences, with the hint of the file c one, and with the
\* hint of the file h none.
C21_Witness ==
    /\ op.name = "an_to_move"
    /\ op.ret = <<"N", "e", "4">>
    /\ op.moves = <<>>
    /\ game = TwoKnights
    /\ Cardinality(Matching(game, "White", Parsed(op.ret))) = 2
    /\ Cardinality(Matching(game, "White", Parsed(<<"N", "c", "e", "4">>))) = 1
    /\ Matching(game, "White", Parsed(<<"N", "h", "e", "4">>)) = {}


---------------------------------------------------------------------------
(* C22 *)

EndsWith(t, suffix) ==
    /\ Len(t) >= Len(suffix)
    /\ SubSeq(t, Len(t) - Len(suffix) + 1, Len(t)) = suffix

\* "# 1-0", "# 0-1" and the draw marker.
ResultSuffixes ==
    { <<"#", " ", "1", "-", "0">>, <<"#", " ", "0", "-", "1">>,
      <<" ", "U+00BD", "-", "U+00BD">> }

Bare(t) == \A suffix \in ResultSuffixes \cup {<<"+">>} : ~EndsWith(t, suffix)

\* The legal sequences of all pieces on the board.
LegalMoves(g) ==
    UNION { LET r == valid_moves(g, sq)
            IN  IF r.panic THEN {} ELSE {r.value[i] : i \in 1..Len(r.value)} :
            sq \in Occupied(g) }

\* C22 as stated: with the result flag unset the text of a legal move ends
\* with the move itself, with no "+", "#", score or draw marker.
C22_AsStated ==
    \A m \in LegalMoves(game) :
        LET t == move_to_an(game, m, FALSE, FALSE)
        IN  ~t.panic => Bare(t.value)

\* C22: the result flag governs only the result: on checkmate "#" and the
\* score of the mover, on a draw the draw marker, are added exactly when the
\* flag is set; "+" is added, with the flag set or unset, exactly when the
\* move ends no game and leaves the opponent in check.
C22_FlagGovernsResult ==
    \A m \in LegalMoves(game) :
        LET unset == move_to_an(game, m, FALSE, FALSE)
            set   == move_to_an(game, m, TRUE, FALSE)
            mover == get_from_pos(game, m[1][1]).color
            after == move_pieces(game, m).game
            v     == check_victory(after)
        IN  (~unset.panic /\ ~set.panic /\ ~v.panic) =>
              IF v.value # NoVictory
              THEN /\ Bare(unset.value)
                   /\ set.value = unset.value \o
                        (IF v.value.status # "Checkmate" THEN <<" ", "U+00BD", "-", "U+00BD">>
                         ELSE IF mover = "White" THEN <<"#", " ", "1", "-", "0">>
                         ELSE <<"#", " ", "0", "-", "1">>)
              ELSE /\ set.value = unset.value
                   /\ EndsWith(unset.value, <<"+">>) <=> KingAttacked(after, Opposite(mover))
                   /\ \A suffix \in ResultSuffixes : ~EndsWith(unset.value, suffix)


\* A position with a move that gives check without mate, written with "+"
\* though the flag is unset, and a mating move, written with "#" and the
\* score only when the flag is set.
C22_Witness ==
    /\ \E m \in LegalMoves(game) :
         /\ EndsWith(move_to_an(game, m, FALSE, FALSE).value, <<"+">>)
         /\ check_victory(move_pieces(game, m).game).value = NoVictory
    /\ \E m \in LegalMoves(game) :
         /\ Bare(move_to_an(game, m, FALSE, FALSE).value)
         /\ EndsWith(move_to_an(game, m, TRUE, FALSE).value, <<"#", " ", "1", "-", "0">>)


---------------------------------------------------------------------------
(* C23 *)

\* The wins GetWins reports, none for a player without an entry.
Wins(p) == IF p \in DOMAIN storage.LEADERBOARD THEN storage.LEADERBOARD[p] ELSE 0

\* C23: the wins of each player on the leaderboard are the concluded games
\* the player won, the host when the host's move beats the opponent's, the
\* opponent when the opponent's beats the host's, nobody on a tie; and a
\* successful Respond removes the record of the host and the opponent.
C23_WinsAreGamesWon ==
    /\ \A p \in Addresses : Wins(p) = concluded[p]
    /\ DOMAIN storage.LEADERBOARD \subseteq Addresses
    /\ (op.name = "Respond" /\ op.ok) =>
          <<op.host, op.sender>> \notin DOMAIN storage.GAMES

\* The opponent has just won a game against a host who won an earlier one.
C23_Witness ==
    /\ op.name = "Respond"
    /\ op.ok
    /\ op.host # op.sender
    /\ Beats(op.move, op.host_move)
    /\ Wins(op.sender) = 1
    /\ Wins(op.host) = 1


---------------------------------------------------------------------------
(* C24 *)

\* C24: with one king of each colour and the check not ignored, in_check of
\* a colour is true exactly when a piece of the other colour attacks the
\* square of the king under the standard rules: a rook, bishop or queen
\* along a clear line, a knight by its jump, a king on an adjacent square, a
\* pawn on the two squares diagonally ahead of it and never straight ahead.
C24_InCheckIsAttack ==
    (OneKingEach(game) /\ ~game.ignore_check) =>
        \A c \in Colors :
            LET r == in_check(game, c)
            IN  ~r.panic /\ (r.value <=> KingAttacked(game, c))


---------------------------------------------------------------------------
(* C25 *)

Sliders == {"Rook", "Bishop", "Queen"}

\* The squares a sliding piece of the kind on from reaches by the rules: on
\* a line of the kind, with every square strictly between empty.
Reach(g, kind, from) ==
    { to \in Squares \ {from} :
        LET dx == to[1] - from[1]
            dy == to[2] - from[2]
        IN  /\ \/ kind \in {"Rook", "Queen"} /\ (dx = 0 \/ dy = 0)
               \/ kind \in {"Bishop", "Queen"} /\ Abs(dx) = Abs(dy)
            /\ ClearLine(g, from, to) }

\* The destinations of the candidates raw_moves generates for a square.
Destinations(g, sq) ==
    LET r == raw_moves(g, sq).value
    IN  {r[i][Len(r[i])][2] : i \in 1..Len(r)}

\* C25: the candidates of a rook, bishop or queen are single moves from its
\* square, one for each square of its lines up to and including the first
\* occupied square or the edge of the board and none beyond; the queen's
\* are those of a rook and of a bishop on its square together.
C25_SlidersStopAtFirstPiece ==
    \A sq \in Occupied(game) :
        LET p == get_from_pos(game, sq)
            r == raw_moves(game, sq)
        IN  p.kind \in Sliders =>
              /\ ~r.panic
              /\ \A i \in 1..Len(r.value) : Len(r.value[i]) = 1 /\ r.value[i][1][1] = sq
              /\ Destinations(game, sq) = Reach(game, p.kind, sq)
              /\ Len(r.value) = Cardinality(Reach(game, p.kind, sq))
              /\ p.kind = "Queen" =>
                   Destinations(game, sq) =
                       Destinations(set_at_pos(game, sq, PieceOf(p.color, "Rook")), sq)
                       \cup Destinations(set_at_pos(game, sq, PieceOf(p.color, "Bishop")), sq)

\* After a move, a sliding piece has on one of its lines an occupied square
\* with a square behind it: the first is a destination, the second is not.
C25_Witness ==
    /\ op.name = "move_pieces"
    /\ \E sq \in Occupied(game) :
         /\ get_from_pos(game, sq).kind \in Sliders
         /\ \E to \in Destinations(game, sq), beyond \in Squares \ Destinations(game, sq) :
              /\ get_from_pos(game, to) # None
              /\ beyond # sq
              /\ Sign(beyond[1] - sq[1]) = Sign(to[1] - sq[1])
              /\ Sign(beyond[2] - sq[2]) = Sign(to[2] - sq[2])
              /\ Sign(beyond[1] - to[1]) = Sign(to[1] - sq[1])
              /\ Sign(beyond[2] - to[2]) = Sign(to[2] - sq[2])
              /\ \/ beyond[1] = sq[1] \/ beyond[2] = sq[2]
                 \/ Abs(beyond[1] - sq[1]) = Abs(beyond[2] - sq[2])


---------------------------------------------------------------------------
(* C26 *)

\* The rank the pawns of a colour start on, and the direction they walk in.
PawnRank(color) == IF color = "White" THEN 1 ELSE 6

Ahead(color) == IF color = "White" THEN 1 ELSE -1

Pawns(g) == {sq \in Occupied(g) : get_from_pos(g, sq).kind = "Pawn"}

\* The single moves among the legal sequences of the piece on sq.
SingleMoves(g, sq) ==
    LET r == valid_moves(g, sq).value
    IN  {r[i][1] : i \in {j \in 1..Len(r) : Len(r[j]) = 1}}

\* A single move of a pawn by the rules: one square ahead onto an empty
\* square, two ahead from the starting rank over and onto empty squares, or
\* one diagonally ahead onto a piece of the other colour.
PawnMoveByRules(g, mv) ==
    LET from == mv[1]
        to   == mv[2]
        c    == get_from_pos(g, from).color
        dx   == to[1] - from[1]
        dy   == (to[2] - from[2]) * Ahead(c)
        one  == <<from[1], from[2] + Ahead(c)>>
    IN  \/ dx = 0 /\ dy = 1 /\ get_from_pos(g, to) = None
        \/ /\ dx = 0 /\ dy = 2 /\ from[2] = PawnRank(c)
           /\ get_from_pos(g, one) = None /\ get_from_pos(g, to) = None
        \/ /\ Abs(dx) = 1 /\ dy = 1
           /\ get_from_pos(g, to) # None /\ get_from_pos(g, to).color # c

\* C26: every single move valid_moves returns for a pawn is a move by the
\* rules: never straight ahead onto an occupied square, two squares only from
\* the starting rank with both squares ahead empty, diagonally only onto a
\* piece of the other colour.
C26_PawnMovesByRules ==
    (OneKingEach(game) /\ ~game.ignore_check) =>
        \A sq \in Pawns(game) :
            /\ ~valid_moves(game, sq).panic
            /\ \A mv \in SingleMoves(game, sq) : mv[1] = sq /\ PawnMoveByRules(game, mv)

\* A pawn with a piece straight ahead has no move ahead, a pawn on its
\* starting rank has the two-square advance and a pawn has a capture.
C26_Witness ==
    /\ op.name \in {"move_pieces", "an_to_move"}
    /\ \E sq \in Pawns(game) :
         /\ get_from_pos(game, <<sq[1], sq[2] + Ahead(get_from_pos(game, sq).color)>>) # None
         /\ \A mv \in SingleMoves(game, sq) : mv[2][1] # sq[1]
    /\ \E sq \in Pawns(game) : \E mv \in SingleMoves(game, sq) : Abs(mv[2][2] - sq[2]) = 2
    /\ \E sq \in Pawns(game) : \E mv \in SingleMoves(game, sq) : mv[2][1] # sq[1]


---------------------------------------------------------------------------
(* C27 *)

\* The castling sequences on the rank y: king e to f, f to g and rook h to f;
\* king e to d, d to c and rook a to d.
Kingside(y) ==
    << <<<<4, y>>, <<5, y>>>>, <<<<5, y>>, <<6, y>>>>, <<<<7, y>>, <<5, y>>>> >>

Queenside(y) ==
    << <<<<4, y>>, <<3, y>>>>, <<<<3, y>>, <<2, y>>>>, <<<<0, y>>, <<3, y>>>> >>

\* The three-sub-move sequences among the legal sequences of the kings.
CastlingsOffered(g) ==
    UNION { LET r == valid_moves(g, sq)
            IN  IF r.panic THEN {}
                ELSE {r.value[i] : i \in {j \in 1..Len(r.value) : Len(r.value[j]) = 3}} :
            sq \in {k \in Occupied(g) : get_from_pos(g, k).kind = "King"} }

\* C27: a three-sub-move sequence of a king is the kingside or the queenside
\* castling sequence on the home rank of the king; applied with move_pieces
\* it captures nothing, puts the king on the g (c) file and the rook on the
\* f (d) file, empties the squares the king and the rook came from and leaves
\* both castling flags of the colour false.
C27_CastlingApplied ==
    \A m \in CastlingsOffered(game) :
        LET king == get_from_pos(game, m[1][1])
            y    == HomeRank(king.color)
            a    == move_pieces(game, m)
            wing == IF m = Kingside(y) THEN 1 ELSE -1
        IN  /\ m \in {Kingside(y), Queenside(y)}
            /\ a.ret = None
            /\ get_from_pos(a.game, <<4 + 2 * wing, y>>) = king
            /\ get_from_pos(a.game, <<4 + wing, y>>) = PieceOf(king.color, "Rook")
            /\ get_from_pos(a.game, <<4, y>>) = None
            /\ get_from_pos(a.game, m[3][1]) = None
            /\ ~CanCastle(a.game, king.color, -1)
            /\ ~CanCastle(a.game, king.color, 1)


---------------------------------------------------------------------------
(* C28 *)

\* The two-sub-move sequences among the legal sequences of the pawns.
PassantsOffered(g) ==
    UNION { LET r == valid_moves(g, sq)
            IN  IF r.panic THEN {}
                ELSE {r.value[i] : i \in {j \in 1..Len(r.value) : Len(r.value[j]) = 2}} :
            sq \in Pawns(g) }

\* C28: applying an en-passant sequence with move_pieces removes the pawn of
\* the other colour that stands beside the capturing pawn, puts the capturing
\* pawn on the square that pawn passed over, empties its origin, returns the
\* captured pawn and leaves the clock at 0.
C28_EnPassantApplied ==
    \A m \in PassantsOffered(game) :
        LET pawn   == get_from_pos(game, m[1][1])
            beside == m[1][2]
            passed == <<beside[1], beside[2] + Ahead(pawn.color)>>
            a      == move_pieces(game, m)
        IN  /\ beside = <<m[1][1][1] + 1, m[1][1][2]>> \/ beside = <<m[1][1][1] - 1, m[1][1][2]>>
            /\ m[2] = <<beside, passed>>
            /\ get_from_pos(game, beside) = PieceOf(Opposite(pawn.color), "Pawn")
            /\ a.ret = PieceOf(Opposite(pawn.color), "Pawn")
            /\ get_from_pos(a.game, beside) = None
            /\ get_from_pos(a.game, passed) = pawn
            /\ get_from_pos(a.game, m[1][1]) = None
            /\ a.game.seventy_five_move_rule = 0


---------------------------------------------------------------------------
(* C29 *)

\* The arguments of the calls considered: every square and one coordinate
\* pair outside the board.
AnySquare == Squares \cup {<<8, 0>>}

\* The flags a move of the piece p from the square from takes away: both of
\* its colour for a king, the queenside one for a rook on the a-file and the
\* kingside one for a rook on the h-file.
Revoked(p, from) ==
    IF p = None THEN {}
    ELSE LET left  == IF p.color = "White" THEN "white_can_castle_left"
                      ELSE "black_can_castle_left"
             right == IF p.color = "White" THEN "white_can_castle_right"
                      ELSE "black_can_castle_right"
         IN  IF p.kind = "King" THEN {left, right}
             ELSE IF p.kind = "Rook" /\ from[1] = 0 THEN {left}
             ELSE IF p.kind = "Rook" /\ from[1] = 7 THEN {right}
             ELSE {}

\* C29: move_piece makes false the flags its moving piece takes away and
\* leaves every other flag as it was, whatever stands on the destination; a
\* call that moves nothing changes no flag.
C29_FlagsFrame ==
    \A from \in AnySquare, to \in AnySquare :
        LET a == move_piece(game, from, to).game
            p == IF Inside(from) /\ Inside(to) THEN get_from_pos(game, from) ELSE None
        IN  \A f \in Flags : a[f] = (game[f] /\ f \notin Revoked(p, from))

\* After a call of move_piece a white rook stands on a4 with the queenside
\* flag of White set: its move takes the flag away, and its capture of the
\* black rook on the corner a8 leaves the flags of Black as they are.
C29_Witness ==
    /\ op.name = "move_piece"
    /\ get_from_pos(game, <<0, 3>>) = WR
    /\ get_from_pos(game, <<0, 7>>) = BR
    /\ game.white_can_castle_left
    /\ game.black_can_castle_left
    /\ ~move_piece(game, <<0, 3>>, <<0, 7>>).game.white_can_castle_left
    /\ move_piece(game, <<0, 3>>, <<0, 7>>).game.black_can_castle_left
    /\ move_piece(game, <<0, 3>>, <<0, 7>>).ret = BR


---------------------------------------------------------------------------
(* C30 *)

\* The clones on which the castling loop of the king on pos, towards dir,
\* calls in_check: the board after the first simulated king step and, when
\* that step captured nothing and left the king out of check, the board
\* after the second.
Simulations(g, pos, dir) ==
    LET piece == get_from_pos(g, pos)
        r1    == move_piece(g, pos, <<pos[1] + dir, pos[2]>>)
        r2    == move_piece(r1.game, pos, <<pos[1] + 2 * dir, pos[2]>>)
    IN  IF r1.ret # None THEN {}
        ELSE IF in_check(r1.game, piece.color).value \/ r2.ret # None THEN {r1.game}
        ELSE {r1.game, r2.game}

\* The calls of in_check made while in_check(g, color) generates the
\* candidates of the pieces of the other colour: those of the castling loops
\* of a king of the other colour on its home square with a flag set.
Nested(g, color) ==
    IF g.ignore_check \/ NoKing(g, color) THEN {}
    ELSE UNION { UNION { {[game |-> sim, color |-> Opposite(color)] :
                          sim \in Simulations(g, pos, dir)} :
                         dir \in {d \in {-1, 1} : CanCastle(g, Opposite(color), d)} } :
                 pos \in {sq \in Occupied(g) :
                            /\ get_from_pos(g, sq) = PieceOf(Opposite(color), "King")
                            /\ sq = HomeSquare(Opposite(color))} }

\* The depth of the calls of in_check below in_check(g, color), this call
\* included, cut off at the depth limit.
RECURSIVE Nesting(_, _, _)
Nesting(g, color, limit) ==
    IF limit = 0 THEN 0
    ELSE LET below == {Nesting(c.game, c.color, limit - 1) : c \in Nested(g, color)}
         IN  1 + (IF below = {} THEN 0 ELSE CHOOSE d \in below : \A e \in below : e <= d)

\* The depth the nesting is followed to, above the depth claimed.
DepthLimit == 6

\* C30: in_check and valid_moves return for every colour and square; a call
\* of in_check made by a castling simulation receives a clone on which the
\* king that stepped has no castling right left, and the calls of in_check
\* are nested at most three deep.
C30_CheckNestingBounded ==
    /\ \A c \in Colors : in_check(game, c).panic \in BOOLEAN
    /\ \A sq \in Squares : valid_moves(game, sq).panic \in BOOLEAN
    /\ \A c \in Colors :
         /\ \A call \in Nested(game, c) :
              ~CanCastle(call.game, call.color, -1) /\ ~CanCastle(call.game, call.color, 1)
         /\ Nesting(game, c, DepthLimit) <= 3

\* After a call of move_piece both kings stand on their home squares with a
\* castling flag each: in_check simulates the castling of the one king, and
\* below it that of the other.
C30_Witness ==
    /\ op.name = "move_piece"
    /\ OneKingEach(game)
    /\ Nested(game, "White") # {}
    /\ Nesting(game, "White", DepthLimit) = 3


---------------------------------------------------------------------------
(* One snapshot per ply                                                    *)

\* C31: a ply applied with move_pieces appends exactly one snapshot to the
\* history, the board after the complete ply (on a history emptied first
\* when the ply captures), so no position inside a castling or en-passant
\* sequence is recorded.
C31_OneSnapshotPerPly ==
    [][ op'.name = "move_pieces" =>
            game'.board_history
              = IF Cardinality(Occupied(game')) < Cardinality(Occupied(game))
                THEN <<game'.board>>
                ELSE Append(game.board_history, game'.board) ]_vars


---------------------------------------------------------------------------
(* Kings are never captured                                                *)

\* The pieces of the side to move.
Movers(g, color) == {sq \in Occupied(g) : get_from_pos(g, sq).color = color}

\* Every sequence valid_moves returns for a piece of the colour leaves one
\* king of each colour on the board when applied with move_pieces.
KingsSurvive(g, color) ==
    \A sq \in Movers(g, color) :
        LET vm == valid_moves(g, sq)
        IN  /\ ~vm.panic
            /\ \A i \in 1..Len(vm.value) : OneKingEach(move_pieces(g, vm.value[i]).game)

\* C32: in a game played from the standard start, the two sides alternately
\* applying with move_pieces sequences returned by valid_moves, the board
\* holds exactly one king of each colour, in_check aborts for neither
\* colour, and no sequence offered to the side to move captures a king.
C32_OneKingEach ==
    /\ OneKingEach(game)
    /\ \A c \in Colors : ~in_check(game, c).panic
    /\ KingsSurvive(game, ToMove)

\* The side to move is in check after at least three plies and has a
\* sequence that meets the check.
C32_Witness ==
    /\ steps >= 3
    /\ in_check(game, ToMove).value
    /\ \E sq \in Movers(game, ToMove) : Len(valid_moves(game, sq).value) > 0


---------------------------------------------------------------------------
(* No castling out of check                                                *)

\* C33: valid_moves returns no castling sequence for a king that is attacked
\* in the current position.
C33_NoCastlingOutOfCheck ==
    \A m \in CastlingsOffered(game) :
        ~KingAttacked(game, get_from_pos(game, m[1][1]).color)


---------------------------------------------------------------------------
(* Castling with a rook that has moved                                     *)

\* The corner squares of the home rank of a colour.
Corners(c) == {<<0, HomeRank(c)>>, <<7, HomeRank(c)>>}

\* C34: a rook that has just moved onto a corner square of its home rank has
\* moved, so right after a ply that puts a rook there valid_moves of the king
\* of its colour contains no castling sequence that relocates that rook.
C34_CastlingRookNeverMoved ==
    [][ ( /\ op'.name = "move_pieces"
          /\ op'.moved.kind = "Rook"
          /\ op'.to \in Corners(op'.moved.color) )
        => \A m \in CastlingsOffered(game') : m[3][1] # op'.to ]_vars


---------------------------------------------------------------------------
(* move_pieces from empty squares                                          *)

\* C35: a move_pieces call whose sub-moves are all in bounds and all start
\* on squares that are empty leaves the game as it was, the history and its
\* length included.
C35_EmptyOriginsChangeNothing ==
    [][ ( /\ op'.name = "move_pieces"
          /\ Len(op'.moves) > 0
          /\ \A k \in 1..Len(op'.moves) :
                 /\ Inside(op'.moves[k][1]) /\ Inside(op'.moves[k][2])
                 /\ get_from_pos(game, op'.moves[k][1]) = None )
        => game' = game ]_vars


---------------------------------------------------------------------------
(* The advisory draw queries and the draws of check_victory                *)

Draw == NoPanic(Victory("Draw", "White"))

\* C36: fifty_move_rule() is true whenever the clock draw of check_victory
\* fires, three_fold_repetition() is true whenever its fivefold draw fires,
\* and check_victory returns Draw in no state where both queries are false.
C36_DrawsImplyQueries ==
    /\ DrawByClock(game) => fifty_move_rule(game)
    /\ DrawByRepetition(game) => three_fold_repetition(game)
    /\ check_victory(game) = Draw => fifty_move_rule(game) \/ three_fold_repetition(game)

\* check_victory returns Draw for five equal snapshots while the clock is
\* below 50, and three_fold_repetition is true.
C36_Witness ==
    /\ check_victory(game) = Draw
    /\ DrawByRepetition(game)
    /\ ~fifty_move_rule(game)
    /\ three_fold_repetition(game)


---------------------------------------------------------------------------
(* What valid_moves reads                                                  *)

\* Games that differ from g in some of the turn counter, the colour that
\* moved last, the halfmove clock and the history, and in nothing else.
Twins(g) ==
    { next_turn(g),
      [g EXCEPT !.last_color = Opposite(@)],
      [g EXCEPT !.seventy_five_move_rule = @ + 1],
      [g EXCEPT !.seventy_five_move_rule = 0],
      [g EXCEPT !.board_history = <<>>],
      [g EXCEPT !.board_history = Append(@, g.board)],
      [g EXCEPT !.turn = @ + 1, !.last_color = Opposite(@),
                !.seventy_five_move_rule = 74, !.board_history = <<g.board, g.board>>] }

---------------------------------------------------------------------------
(* The frame of move_piece                                                 *)

\* move_piece(from, to) on g empties from, leaves on to the moved (or
\* promoted) piece and touches no other cell, takes at most one piece off
\* the board, and leaves the history and the turn counter alone.
MovePieceFrame(g, from, to) ==
    LET a == move_piece(g, from, to).game
    IN  /\ \A sq \in Squares \ {from, to} : get_from_pos(a, sq) = get_from_pos(g, sq)
        /\ get_from_pos(a, from) = None
        /\ get_from_pos(a, to) = Arriving(get_from_pos(g, from), to)
        /\ Cardinality(Occupied(a)) - Cardinality(Occupied(g)) \in {0, -1}
        /\ a.board_history = g.board_history
        /\ a.turn = g.turn

\* C38: a successful move_piece(from, to) (origin occupied, coordinates in
\* bounds) changes the two cells from and to and nothing else on the board:
\* from is empty afterwards and to holds the moved or promoted piece; the
\* piece count changes by 0 or -1 and the history and the turn counter are
\* unchanged.
C38_MovePieceFrame ==
    \A from \in Occupied(game) : \A to \in Squares : MovePieceFrame(game, from, to)


---------------------------------------------------------------------------
(* Round trip of the notation                                              *)

\* The sequence m of the piece on sq does not leave the other king in check.
Quiet(g, m) ==
    ~in_check(move_pieces(g, m).game, Opposite(get_from_pos(g, m[1][1]).color)).value

\* m written by move_to_an without result and read back by an_to_move for
\* the colour of the piece gives m.
RoundTrip(g, m) ==
    LET an == move_to_an(g, m, FALSE, FALSE)
    IN  /\ ~an.panic
        /\ an_to_move(g, an.value, get_from_pos(g, m[1][1]).color) = NoPanic(SomeMove(m))

\* The colour may be the side to move: the king of the other colour is not
\* attacked.
MayMove(g, color) == ~KingAttacked(g, Opposite(color))

\* C39: in a position where a colour may be to move, for every sequence m
\* that valid_moves returns for one of its pieces and that does not give
\* check, an_to_move(move_to_an(m, false, false), that colour) returns
\* Some(m), also when another piece of the same kind and colour on the same
\* rank or file can reach the destination of m.
C39_RoundTrip ==
    \A sq \in Occupied(game) :
        MayMove(game, get_from_pos(game, sq).color) =>
            LET vm == valid_moves(game, sq).value
            IN  \A i \in 1..Len(vm) : Quiet(game, vm[i]) => RoundTrip(game, vm[i])

====
